---- MODULE Spec2Model ----
(***************************************************************************)
(* A model of the box / page-layout core of ocrreader2:                    *)
(*   src/src/page/ocr_box.py      OCRBox and its variants, BOX_TYPE_MAP    *)
(*   src/src/page/page_layout.py  PageLayout                               *)
(*   src/src/page/page.py         Page                                     *)
(* Python objects are modelled as records, Python lists as sequences.      *)
(* Indices are Python indices (0-based); s[i + 1] reads the list at i.     *)
(***************************************************************************)
EXTENDS Integers, Sequences, FiniteSets, TLC

VARIABLES
    ocr_boxes,   \* PageLayout.ocr_boxes: the sequence of box objects
    page,        \* Page / PageLayout scalars: image_path, order, region, header_y, footer_y
    next_id,     \* the next fresh identity (uuid4 never repeats)
    last,        \* the last call: its name, its arguments, how it ended
    notified,    \* the observers invoked by the last call, in invocation order
    probe        \* inputs and results of the pure functions applied last

vars == <<ocr_boxes, page, next_id, last, notified, probe>>

----------------------------------------------------------------------------
(* Bounds of the model *)

MaxBoxes == 3
MaxIds == 4
MaxPageIds == 3
MaxX == 1
MaxW == 2
MaxCallbacks == 2
MaxDepth == 6
MaxAmount == 2
MaxDim == 4
MaxAnalyzeIds == 3
MaxRefineBoxes == 2

----------------------------------------------------------------------------
(* Python values *)

\* Python's None where a string is expected (the source tag of an update).
None == "None"

Min(a, b) == IF a <= b THEN a ELSE b
Max(a, b) == IF a >= b THEN a ELSE b

Range(s) == {s[k] : k \in DOMAIN s}

\* list.insert(index, b): a negative index counts from the end, and an index
\* outside the list is clamped to its ends.
ListInsert(s, index, b) ==
    LET n == Len(s)
        i0 == IF index < 0 THEN Max(index + n, 0) ELSE Min(index, n)
    IN  SubSeq(s, 1, i0) \o <<b>> \o SubSeq(s, i0 + 1, n)

\* Whether list.pop(index) / list[index] finds an element (no IndexError).
ListIndexOk(s, index) == index >= 0 - Len(s) /\ index < Len(s)

\* The 1-based place of Python index `index` (a negative one counts from the end).
ListPos(s, index) == IF index < 0 THEN index + Len(s) + 1 ELSE index + 1

\* list.pop(index), the list that is left; index is one ListIndexOk accepts.
ListPop(s, index) ==
    LET p == ListPos(s, index)
    IN  SubSeq(s, 1, p - 1) \o SubSeq(s, p + 1, Len(s))

\* list[index] = b
ListSet(s, index, b) == [s EXCEPT ![ListPos(s, index)] = b]

----------------------------------------------------------------------------
(* BoxType and the variant table *)

TextTypes == {"FLOWING_TEXT", "HEADING_TEXT", "PULLOUT_TEXT",
              "INLINE_EQUATION", "VERTICAL_TEXT", "CAPTION_TEXT"}

ImageTypes == {"FLOWING_IMAGE", "HEADING_IMAGE", "PULLOUT_IMAGE"}

LineTypes == {"HORZ_LINE", "VERT_LINE"}

\* The enumeration BoxType (page/box_type.py): the kinds the specification
\* lists, "ignore" included (page.py and page_editor_view.py use BoxType.IGNORE).
BoxType == TextTypes \cup ImageTypes \cup LineTypes \cup
           {"UNKNOWN", "EQUATION", "TABLE", "NOISE", "COUNT", "IGNORE"}

\* BOX_TYPE_MAP: type name -> variant class. "IGNORE" is not a key.
BOX_TYPE_MAP ==
    [t \in BoxType \ {"IGNORE"} |->
        CASE t \in TextTypes -> "TextBox"
          [] t \in ImageTypes -> "ImageBox"
          [] t \in LineTypes -> "LineBox"
          [] t = "EQUATION" -> "EquationBox"
          [] t = "TABLE" -> "TableBox"
          [] t = "NOISE" -> "NoiseBox"
          [] t = "COUNT" -> "CountBox"
          [] OTHER -> "OCRBox"]

Variants == {"OCRBox", "TextBox", "ImageBox", "LineBox", "EquationBox",
             "TableBox", "NoiseBox", "CountBox"}

----------------------------------------------------------------------------
(* Recognition results *)

\* ocr_results = None
NoResults == [kind |-> "None", paragraphs |-> <<>>]

\* An OCRResultBlock object holding the given paragraphs.
Block(ps) == [kind |-> "block", paragraphs |-> ps]

\* The keyed record of a block, as OCRResultBlock.to_dict gives it.
BlockDict(ps) == [kind |-> "dict", paragraphs |-> ps]

\* Python truthiness of box.ocr_results: None is false, a block or a
\* non-empty keyed record is true.
Truthy(r) == r.kind # "None"

OCRResultBlock_to_dict(r) == BlockDict(r.paragraphs)

OCRResultBlock_from_dict(d) == Block(d.paragraphs)

----------------------------------------------------------------------------
(* OCRBox *)

\* OCRBox.__init__ and the variants' __init__: a box of class cls with a
\* fresh id, order 0, no tags, confidence 0, no results and no observers.
\* user_text is a string, held as the sequence of its pieces ("" is <<>>);
\* only a TextBox has the attribute. user_data (a set of <<key, value>>
\* pairs) and flows_into_next are the attributes page.py reads and writes.
NewBox(cls, id, x, y, width, height, type) ==
    [cls |-> cls, id |-> id, order |-> 0,
     x |-> x, y |-> y, width |-> width, height |-> height,
     type |-> type, class_ |-> "", tag |-> "", confidence |-> 0,
     ocr_results |-> NoResults,
     callbacks |-> <<>>, update_source |-> None,
     user_text |-> <<>>, user_data |-> {}, flows_into_next |-> FALSE]

\* isinstance(box, TextBox)
IsTextBox(b) == b.cls = "TextBox"

\* OCRBox.add_callback
add_callback(b, callback) == [b EXCEPT !.callbacks = Append(@, callback)]

\* notify_callbacks without the source guard.
notify_callbacks_unguarded(b, source) == b.callbacks

\* OCRBox.notify_callbacks: the observers it invokes, in invocation order.
notify_callbacks(b, source) ==
    IF source # b.update_source THEN b.callbacks ELSE <<>>

\* The outcome of a call that may raise: ok with a box, or the exception.
Ok(b) == [ok |-> TRUE, err |-> "", box |-> b]
Raise(e, b) == [ok |-> FALSE, err |-> e, box |-> b]

\* The target types for which convert_to drops the recognition result.
DropResultTypes == {"FLOWING_IMAGE", "HEADING_IMAGE", "PULLOUT_IMAGE",
                    "HORZ_LINE", "VERT_LINE"}

\* convert_to that gives the new box an identity of its own
convert_to_new_identity(b, box_type) ==
    IF box_type \notin DOMAIN BOX_TYPE_MAP THEN Raise("KeyError", b)
    ELSE Ok([NewBox(BOX_TYPE_MAP[box_type], b.id + 1, b.x, b.y, b.width, b.height, box_type)
                EXCEPT !.order = b.order,
                       !.class_ = b.class_,
                       !.tag = b.tag,
                       !.confidence = b.confidence])

\* OCRBox.convert_to: BOX_TYPE_MAP[box_type.name] raises KeyError for a type
\* that is no key of the table; otherwise a new box of the mapped variant
\* with the receiver's geometry, id, order, class, tag and confidence.
convert_to(b, box_type) ==
    IF box_type \notin DOMAIN BOX_TYPE_MAP THEN Raise("KeyError", b)
    ELSE Ok([NewBox(BOX_TYPE_MAP[box_type], b.id, b.x, b.y, b.width, b.height, box_type)
                EXCEPT !.order = b.order,
                       !.class_ = b.class_,
                       !.tag = b.tag,
                       !.confidence = b.confidence,
                       !.ocr_results = IF box_type \in DropResultTypes
                                       THEN NoResults ELSE b.ocr_results])

----------------------------------------------------------------------------
(* Serialization of a box: to_dict / from_dict *)

\* A keyed record (a Python dict): `keys` are the keys present; the value
\* fields of absent keys hold fixed fillers, so that two keyed records are
\* equal exactly when they have the same keys with the same values.
BaseKeys == {"id", "position", "type", "class", "tag", "confidence", "order",
             "ocr_results"}

Position(x, y, width, height) == [x |-> x, y |-> y, width |-> width, height |-> height]

EmptyDict ==
    [keys |-> {}, id |-> 0, position |-> Position(0, 0, 0, 0), type |-> "",
     class |-> "", tag |-> "", confidence |-> 0, order |-> 0,
     ocr_results |-> NoResults, user_text |-> <<>>]

\* dict.get(key, default)
Get(data, key, default) == IF key \in data.keys THEN data[key] ELSE default

OkDict(d) == [ok |-> TRUE, err |-> "", d |-> d]
RaiseDict(e) == [ok |-> FALSE, err |-> e, d |-> EmptyDict]

\* OCRBox.to_dict. self.ocr_results.to_dict() is OCRResultBlock.to_dict when
\* the attribute holds a block; a keyed record has no such method.
OCRBox_to_dict(b) ==
    IF Truthy(b.ocr_results) /\ b.ocr_results.kind # "block"
    THEN RaiseDict("AttributeError")
    ELSE OkDict([EmptyDict EXCEPT
            !.keys = BaseKeys,
            !.id = b.id,
            !.position = Position(b.x, b.y, b.width, b.height),
            !.type = b.type,
            !.class = b.class_,
            !.tag = b.tag,
            !.confidence = b.confidence,
            !.order = b.order,
            !.ocr_results = IF Truthy(b.ocr_results)
                            THEN OCRResultBlock_to_dict(b.ocr_results)
                            ELSE NoResults])

\* to_dict of the box's own class: TextBox adds "user_text", the other
\* variants return super().to_dict().
to_dict(b) ==
    LET base == OCRBox_to_dict(b)
    IN  IF base.ok /\ IsTextBox(b)
        THEN OkDict([base.d EXCEPT !.keys = @ \cup {"user_text"},
                                   !.user_text = b.user_text])
        ELSE base

\* OCRBox.load_ocr_results
load_ocr_results(ocr_result_data) ==
    IF ~Truthy(ocr_result_data) THEN NoResults
    ELSE OCRResultBlock_from_dict(ocr_result_data)

\* from_dict that reads a record of unknown type as UNKNOWN
OCRBox_from_dict_any_type(cls, data) ==
    IF ~({"position", "id", "type"} \subseteq data.keys) THEN Raise("KeyError", NewBox(cls, 0, 0, 0, 0, 0, "UNKNOWN"))
    ELSE Ok([NewBox(cls, data.id, data.position.x, data.position.y,
                    data.position.width, data.position.height,
                    IF data.type \in BoxType THEN data.type ELSE "UNKNOWN")
                EXCEPT !.order = Get(data, "order", 0),
                       !.class_ = Get(data, "class", ""),
                       !.tag = Get(data, "tag", ""),
                       !.confidence = Get(data, "confidence", 0),
                       !.ocr_results = load_ocr_results(Get(data, "ocr_results", NoResults))])

\* OCRBox.from_dict (a classmethod: the box is built by cls). data["position"],
\* data["id"], data["type"] and BoxType[...] raise KeyError when the key or
\* the type name is missing; order, class, tag, confidence and ocr_results
\* have defaults.
OCRBox_from_dict(cls, data) ==
    IF ~({"position", "id", "type"} \subseteq data.keys) THEN Raise("KeyError", NewBox(cls, 0, 0, 0, 0, 0, "UNKNOWN"))
    ELSE IF data.type \notin BoxType THEN Raise("KeyError", NewBox(cls, 0, 0, 0, 0, 0, "UNKNOWN"))
    ELSE Ok([NewBox(cls, data.id, data.position.x, data.position.y,
                    data.position.width, data.position.height, data.type)
                EXCEPT !.order = Get(data, "order", 0),
                       !.class_ = Get(data, "class", ""),
                       !.tag = Get(data, "tag", ""),
                       !.confidence = Get(data, "confidence", 0),
                       !.ocr_results = load_ocr_results(Get(data, "ocr_results", NoResults))])

\* TextBox.from_dict: the same fields, and user_text (default "").
TextBox_from_dict(data) ==
    LET r == OCRBox_from_dict("TextBox", data)
    IN  IF r.ok THEN Ok([r.box EXCEPT !.user_text = Get(data, "user_text", <<>>)])
        ELSE r

\* ImageBox / LineBox / EquationBox / TableBox / NoiseBox / CountBox
\* .from_dict: super().from_dict(data) first, then a second box of cls whose
\* ocr_results is data.get("ocr_results") as it stands (the keyed record).
Variant_from_dict(cls, data) ==
    LET r == OCRBox_from_dict(cls, data)
    IN  IF r.ok THEN Ok([r.box EXCEPT !.ocr_results = Get(data, "ocr_results", NoResults)])
        ELSE r

\* cls.from_dict(data)
from_dict(cls, data) ==
    CASE cls = "OCRBox" -> OCRBox_from_dict("OCRBox", data)
      [] cls = "TextBox" -> TextBox_from_dict(data)
      [] OTHER -> Variant_from_dict(cls, data)

\* a == b for two boxes: every __eq__ asks isinstance(other, own class) and
\* equal to_dict(); Python asks the right operand first when its class is a
\* subclass of the left one's. The outcome is "True", "False", or the
\* exception a to_dict raises.
BoxEq(a, b) ==
    IF a.cls # b.cls THEN "False"
    ELSE IF ~to_dict(a).ok THEN to_dict(a).err
    ELSE IF ~to_dict(b).ok THEN to_dict(b).err
    ELSE IF to_dict(a).d = to_dict(b).d THEN "True" ELSE "False"

----------------------------------------------------------------------------
(* PageLayout *)

\* A faulty update_order that leaves every order as it is.
update_order_skip(boxes) == boxes

\* PageLayout.update_order: order = position in the sequence.
update_order(boxes) ==
    [k \in DOMAIN boxes |-> [boxes[k] EXCEPT !.order = k - 1]]

\* PageLayout.move_ocr_box
move_ocr_box(boxes, index, new_index) ==
    update_order(ListInsert(ListPop(boxes, index), new_index,
                            boxes[ListPos(boxes, index)]))

\* PageLayout.remove_ocr_box
remove_ocr_box(boxes, index) == update_order(ListPop(boxes, index))

\* PageLayout.remove_box_by_id: the first box with that id, if any.
remove_box_by_id(boxes, box_id) ==
    LET hits == {k \in DOMAIN boxes : boxes[k].id = box_id}
    IN  IF hits = {} THEN boxes
        ELSE remove_ocr_box(boxes, (CHOOSE k \in hits : \A m \in hits : k <= m) - 1)

\* PageLayout.add_ocr_box without an index (append)
add_ocr_box(boxes, box) == update_order(Append(boxes, box))

\* PageLayout.add_ocr_box with an index (insert)
add_ocr_box_at(boxes, box, index) == update_order(ListInsert(boxes, index, box))

\* PageLayout.replace_ocr_box and __setitem__
replace_ocr_box(boxes, index, box) == ListSet(boxes, index, box)

\* PageLayout.__delitem__
delitem(boxes, index) == ListPop(boxes, index)

----------------------------------------------------------------------------
(* Page *)

\* Page.is_valid_box_index
is_valid_box_index(boxes, box_index) == box_index >= 0 /\ box_index < Len(boxes)

\* Page.convert_ocr_box: an invalid index is logged and nothing changes; an
\* exception of convert_to leaves the layout as it was.
convert_ocr_box(boxes, box_index, box_type) ==
    IF ~is_valid_box_index(boxes, box_index) THEN boxes
    ELSE LET r == convert_to(boxes[box_index + 1], box_type)
         IN  IF r.ok THEN ListSet(boxes, box_index, r.box) ELSE boxes

\* dict.update: the keys of `other` win.
DictUpdate(data, other) ==
    {kv \in data : \A ov \in other : ov[1] # kv[1]} \cup other

\* Lines 286-303 of Page.merge_ocr_box_with_ocr_box as they act on box1.
\* x and y are assigned first (x1, y1); width and height are then computed
\* from the new x and y of box1. When both indices name the same object,
\* box2 is box1 and box2's x and y are read after their assignment (x2, y2).
merge_into(b1, b2, same) ==
    LET x1 == Min(b1.x, b2.x)
        y1 == Min(b1.y, b2.y)
        x2 == IF same THEN x1 ELSE b2.x
        y2 == IF same THEN y1 ELSE b2.y
    IN  [b1 EXCEPT
            !.x = x1,
            !.y = y1,
            !.width = Max(x1 + b1.width, x2 + b2.width) - x1,
            !.height = Max(y1 + b1.height, y2 + b2.height) - y1,
            !.confidence = Max(b1.confidence, b2.confidence),
            !.user_data = DictUpdate(b1.user_data, b2.user_data),
            !.ocr_results = IF Truthy(b1.ocr_results) /\ Truthy(b2.ocr_results)
                            THEN [b1.ocr_results EXCEPT
                                     !.paragraphs = @ \o b2.ocr_results.paragraphs]
                            ELSE b1.ocr_results,
            !.user_text = IF IsTextBox(b1) /\ IsTextBox(b2)
                          THEN b1.user_text \o <<" ">> \o b2.user_text
                          ELSE b1.user_text,
            !.flows_into_next = IF IsTextBox(b1) /\ IsTextBox(b2)
                                THEN b2.flows_into_next
                                ELSE b1.flows_into_next]

\* list.remove(x): the list without its first element equal to x
\* (the same object, or one that == finds equal).
ListRemove(s, p, x) ==
    LET hits == {k \in DOMAIN s : k = p \/ BoxEq(s[k], x) = "True"}
        k0 == CHOOSE k \in hits : \A m \in hits : k <= m
    IN  SubSeq(s, 1, k0 - 1) \o SubSeq(s, k0 + 1, Len(s))

\* Page.merge_ocr_box_with_ocr_box: the layout's box sequence after the call.
merge_ocr_box_with_ocr_box(boxes, index1, index2) ==
    IF ~is_valid_box_index(boxes, index1) \/ ~is_valid_box_index(boxes, index2)
    THEN boxes
    ELSE LET merged == [boxes EXCEPT ![index1 + 1] =
                            merge_into(boxes[index1 + 1], boxes[index2 + 1], index1 = index2)]
         IN  ListRemove(merged, index2 + 1, merged[index2 + 1])

\* The observers Page.merge_ocr_box_with_ocr_box invokes: box1 fires a
\* "Backend" notification after the removal.
merge_notifies(boxes, index1, index2) ==
    IF ~is_valid_box_index(boxes, index1) \/ ~is_valid_box_index(boxes, index2)
    THEN <<>>
    ELSE notify_callbacks(boxes[index1 + 1], "Backend")

\* PageLayout.to_dict inside Page.to_dict: one keyed record per box; the
\* exception of a box's to_dict ends the call.
Page_to_dict(pg, boxes) ==
    LET ds == [k \in DOMAIN boxes |-> to_dict(boxes[k])]
        bad == {k \in DOMAIN boxes : ~ds[k].ok}
    IN  [ok |-> bad = {},
         err |-> IF bad = {} THEN ""
                 ELSE ds[CHOOSE k \in bad : \A m \in bad : k <= m].err,
         image_path |-> pg.image_path,
         order |-> pg.order,
         boxes |-> [k \in DOMAIN boxes |-> ds[k].d],
         region |-> pg.region,
         header_y |-> pg.header_y,
         footer_y |-> pg.footer_y]

\* The class Page.from_dict reads a box record with: BOX_TYPE_MAP[type] when
\* the type name is a key of the table, OCRBox otherwise.
LoadClass(box_data) ==
    IF box_data.type \in DOMAIN BOX_TYPE_MAP THEN BOX_TYPE_MAP[box_data.type]
    ELSE "OCRBox"

RECURSIVE LoadBoxes(_, _)
\* The loop of Page.from_dict: each record is read and added with
\* layout.add_ocr_box; the first exception ends the call.
LoadBoxes(datas, acc) ==
    IF datas = <<>> THEN [ok |-> TRUE, err |-> "", boxes |-> acc]
    ELSE IF "type" \notin Head(datas).keys THEN [ok |-> FALSE, err |-> "KeyError", boxes |-> acc]
    ELSE LET r == from_dict(LoadClass(Head(datas)), Head(datas))
         IN  IF ~r.ok THEN [ok |-> FALSE, err |-> r.err, boxes |-> acc]
             ELSE LoadBoxes(Tail(datas), add_ocr_box(acc, r.box))

\* Page.from_dict
Page_from_dict(data) ==
    LET l == LoadBoxes(data.boxes, <<>>)
    IN  [ok |-> l.ok, err |-> l.err,
         page |-> [image_path |-> data.image_path, order |-> data.order,
                   region |-> data.region, header_y |-> data.header_y,
                   footer_y |-> data.footer_y],
         boxes |-> l.boxes]

----------------------------------------------------------------------------
(* The record of the last call *)

Call(op, i, j, t, result) == [op |-> op, i |-> i, j |-> j, t |-> t, result |-> result]

NoCall == Call("none", 0, 0, "", "ok")

NoProbe == [fn |-> "none"]

Page0 == [image_path |-> "data/1.jpeg", order |-> 0,
          region |-> <<0, 0, 0, 0>>, header_y |-> 0, footer_y |-> 0]

\* The boxes a caller may hand to the layout: boxes of the given types at
\* the given x positions, with any order value (the layout renumbers on its
\* own).
InputBoxes(id, types, xs) ==
    {[NewBox(BOX_TYPE_MAP[t], id, x, 0, 1, 1, t) EXCEPT !.order = o] :
        t \in types, x \in xs, o \in 0..MaxBoxes}

LayoutTypes == {"FLOWING_TEXT", "FLOWING_IMAGE"}

----------------------------------------------------------------------------
(* SpecLayout: a PageLayout driven by add / remove / move only *)

Init ==
    /\ ocr_boxes = <<>>
    /\ page = Page0
    /\ next_id = 1
    /\ last = NoCall
    /\ notified = <<>>
    /\ probe = NoProbe

AddOcrBox ==
    /\ Len(ocr_boxes) < MaxBoxes
    /\ next_id <= MaxIds
    /\ \E b \in InputBoxes(next_id, LayoutTypes, {0}) :
          ocr_boxes' = add_ocr_box(ocr_boxes, b)
    /\ next_id' = next_id + 1
    /\ last' = Call("add_ocr_box", Len(ocr_boxes), 0, "", "ok")
    /\ UNCHANGED <<page, notified, probe>>

AddOcrBoxAt ==
    /\ Len(ocr_boxes) < MaxBoxes
    /\ next_id <= MaxIds
    /\ \E b \in InputBoxes(next_id, LayoutTypes, {0}), index \in (0 - 1)..(Len(ocr_boxes) + 1) :
          /\ ocr_boxes' = add_ocr_box_at(ocr_boxes, b, index)
          /\ last' = Call("add_ocr_box", index, 0, "", "ok")
    /\ next_id' = next_id + 1
    /\ UNCHANGED <<page, notified, probe>>

RemoveOcrBox ==
    /\ \E index \in (0 - Len(ocr_boxes))..(Len(ocr_boxes) - 1) :
          /\ ocr_boxes' = remove_ocr_box(ocr_boxes, index)
          /\ last' = Call("remove_ocr_box", index, 0, "", "ok")
    /\ UNCHANGED <<page, next_id, notified, probe>>

RemoveBoxById ==
    /\ \E box_id \in 1..MaxIds :
          /\ ocr_boxes' = remove_box_by_id(ocr_boxes, box_id)
          /\ last' = Call("remove_box_by_id", box_id, 0, "", "ok")
    /\ UNCHANGED <<page, next_id, notified, probe>>

MoveOcrBox ==
    /\ \E index \in 0..(Len(ocr_boxes) - 1), new_index \in 0..(Len(ocr_boxes) - 1) :
          /\ ocr_boxes' = move_ocr_box(ocr_boxes, index, new_index)
          /\ last' = Call("move_ocr_box", index, new_index, "", "ok")
    /\ UNCHANGED <<page, next_id, notified, probe>>

NextLayout ==
    \/ AddOcrBox
    \/ AddOcrBoxAt
    \/ RemoveOcrBox
    \/ RemoveBoxById
    \/ MoveOcrBox

SpecLayout == Init /\ [][NextLayout]_vars

----------------------------------------------------------------------------
(* SpecPage: a Page driven by every structural call *)

\* The observer PageEditorController registers on each box it adds.
on_ocr_box_updated == "on_ocr_box_updated"

\* The boxes handed to a page: text boxes, recognized or not.
PageInputBoxes(id, orders) ==
    {[b EXCEPT !.ocr_results = r, !.order = o] :
        b \in InputBoxes(id, {"FLOWING_TEXT"}, {0}),
        r \in {NoResults, Block(<<id>>)},
        o \in orders}

\* The target types convert is called with.
ConvertTargets == {"FLOWING_IMAGE", "EQUATION", "IGNORE"}

\* PageEditorController.add_new_box: the box is appended to the layout and
\* the controller registers its observer on it.
AddNewBox ==
    /\ Len(ocr_boxes) < MaxBoxes
    /\ next_id <= MaxPageIds
    /\ \E b \in PageInputBoxes(next_id, {0}) :
          ocr_boxes' = add_ocr_box(ocr_boxes, add_callback(b, on_ocr_box_updated))
    /\ next_id' = next_id + 1
    /\ last' = Call("add_new_box", 0, 0, "", "ok")
    /\ UNCHANGED <<page, notified, probe>>

PageRemoveOcrBox ==
    /\ \E index \in 0..(Len(ocr_boxes) - 1) :
          /\ ocr_boxes' = remove_ocr_box(ocr_boxes, index)
          /\ last' = Call("remove_ocr_box", 0, 0, "", "ok")
    /\ UNCHANGED <<page, next_id, notified, probe>>

PageMoveOcrBox ==
    /\ \E index \in 0..(Len(ocr_boxes) - 1), new_index \in 0..(Len(ocr_boxes) - 1) :
          /\ index # new_index
          /\ ocr_boxes' = move_ocr_box(ocr_boxes, index, new_index)
          /\ last' = Call("move_ocr_box", 0, 0, "", "ok")
    /\ UNCHANGED <<page, next_id, notified, probe>>

\* PageLayout.replace_ocr_box(index, box) with a box of the caller's.
ReplaceOcrBox ==
    /\ next_id <= MaxPageIds
    /\ \E index \in 0..(Len(ocr_boxes) - 1), b \in PageInputBoxes(next_id, {0}) :
          /\ ocr_boxes' = replace_ocr_box(ocr_boxes, index, b)
          /\ last' = Call("replace_ocr_box", 0, 0, "", "ok")
    /\ next_id' = next_id + 1
    /\ UNCHANGED <<page, notified, probe>>

\* del layout[index]
DelItem ==
    /\ \E index \in 0..(Len(ocr_boxes) - 1) :
          /\ ocr_boxes' = delitem(ocr_boxes, index)
          /\ last' = Call("delitem", 0, 0, "", "ok")
    /\ UNCHANGED <<page, next_id, notified, probe>>

\* Page.merge_ocr_box_with_ocr_box(index1, index2), for valid and invalid
\* indices.
MergeOcrBoxes ==
    /\ \E index1 \in (0 - 1)..Len(ocr_boxes), index2 \in (0 - 1)..Len(ocr_boxes) :
          /\ ocr_boxes' = merge_ocr_box_with_ocr_box(ocr_boxes, index1, index2)
          /\ notified' = merge_notifies(ocr_boxes, index1, index2)
          /\ last' = Call("merge", index1, index2, "",
                          IF is_valid_box_index(ocr_boxes, index1)
                             /\ is_valid_box_index(ocr_boxes, index2)
                          THEN "ok" ELSE "invalid index")
    /\ UNCHANGED <<page, next_id, probe>>

\* Page.convert_ocr_box(box_index, box_type)
ConvertOcrBox ==
    /\ \E box_index \in (0 - 1)..Len(ocr_boxes), box_type \in ConvertTargets :
          /\ ocr_boxes' = convert_ocr_box(ocr_boxes, box_index, box_type)
          /\ last' = Call("convert", box_index, 0, box_type,
                          IF ~is_valid_box_index(ocr_boxes, box_index) THEN "invalid index"
                          ELSE IF convert_to(ocr_boxes[box_index + 1], box_type).ok THEN "ok"
                          ELSE convert_to(ocr_boxes[box_index + 1], box_type).err)
    /\ UNCHANGED <<page, next_id, notified, probe>>

NextPage ==
    \/ AddNewBox
    \/ PageRemoveOcrBox
    \/ PageMoveOcrBox
    \/ ReplaceOcrBox
    \/ DelItem
    \/ MergeOcrBoxes
    \/ ConvertOcrBox

SpecPage == Init /\ [][NextPage]_vars

\* SpecOrch: a Page driven by add, remove, move, merge and convert only.
NextOrch ==
    \/ AddNewBox
    \/ PageRemoveOcrBox
    \/ PageMoveOcrBox
    \/ MergeOcrBoxes
    \/ ConvertOcrBox

SpecOrch == Init /\ [][NextOrch]_vars

----------------------------------------------------------------------------
(* The contiguous-order invariant *)

ContiguousOrder(boxes) ==
    /\ \A k \in DOMAIN boxes : boxes[k].order = k - 1
    /\ {boxes[k].order : k \in DOMAIN boxes} = 0..(Len(boxes) - 1)

\* C1: after every add_ocr_box (with or without index), remove_ocr_box,
\* remove_box_by_id and move_ocr_box call, the order values over
\* layout.ocr_boxes are exactly 0..n-1 without duplicates, and each box's
\* order is its position in the sequence.
C1_OrderContiguous == ContiguousOrder(ocr_boxes)

\* A layout of three boxes that a move has just reordered, reached with a
\* box that was handed in with a non-zero order.
C1_Witness ==
    /\ last.op = "move_ocr_box"
    /\ last.i # last.j
    /\ Len(ocr_boxes) = MaxBoxes
    /\ ocr_boxes[1].id > ocr_boxes[2].id

----------------------------------------------------------------------------
(* Claims about the structural calls of a Page *)

Ids(boxes) == {boxes[k].id : k \in DOMAIN boxes}

\* C2: the contiguous-order invariant (order values exactly 0..n-1, order =
\* position) holds after every public structural call, replace_ocr_box,
\* __delitem__ and merge_ocr_box_with_ocr_box included, when it held before
\* the call.
C2_OrderKeptByEveryCall ==
    [][ContiguousOrder(ocr_boxes) => ContiguousOrder(ocr_boxes')]_vars

\* C4: Page.from_dict(page.to_dict()) gives a page with the same image
\* path, the same region and the same number of boxes, whose i-th box
\* equals the i-th original box in every serialized field, order included.
C4_PageRoundTrip ==
    LET d == Page_to_dict(page, ocr_boxes)
        l == Page_from_dict(d)
    IN  /\ d.ok
        /\ l.ok
        /\ l.page.image_path = page.image_path
        /\ l.page.region = page.region
        /\ Len(l.boxes) = Len(ocr_boxes)
        /\ \A k \in DOMAIN ocr_boxes :
              k \in DOMAIN l.boxes => BoxEq(ocr_boxes[k], l.boxes[k]) = "True"

\* C7: after merge(index1, index2) with valid indices (index1 = index2
\* included) the layout has exactly one box fewer, the box that was at
\* index1 is still in the layout with its id, and no box with box2's id
\* remains unless box2 is box1.
C7_MergeRemovesBox2Only ==
    [][(last'.op = "merge" /\ last'.result = "ok") =>
          /\ Len(ocr_boxes') = Len(ocr_boxes) - 1
          /\ ocr_boxes[last'.i + 1].id \in Ids(ocr_boxes')
          /\ (last'.i # last'.j => ocr_boxes[last'.j + 1].id \notin Ids(ocr_boxes'))]_vars

\* C9: the box that convert_to produces and Page.convert_ocr_box installs
\* has the old box's id and order, and a notification on it invokes every
\* observer that was registered on the old box.
C9_ConvertKeepsObservers ==
    [][(last'.op = "convert" /\ last'.result = "ok") =>
          LET old == ocr_boxes[last'.i + 1]
              new == ocr_boxes'[last'.i + 1]
          IN  /\ new.id = old.id
              /\ new.order = old.order
              /\ Range(old.callbacks) \subseteq Range(notify_callbacks(new, "Backend"))]_vars

----------------------------------------------------------------------------
(* SpecBox: to_dict / from_dict and convert_to applied to single boxes *)

\* The boxes the functions are applied to: every variant, with a type that
\* is or is not the one the variant table pairs with it (box.type is
\* assignable), with and without a recognition result.
ProbeBoxes ==
    {[NewBox(cls, 1, 1, 2, 3, 1, t) EXCEPT
            !.order = o, !.confidence = c, !.tag = g, !.ocr_results = r,
            !.user_text = IF cls = "TextBox" THEN u ELSE <<>>] :
        cls \in Variants,
        t \in {"UNKNOWN", "CAPTION_TEXT", "FLOWING_IMAGE", "EQUATION"},
        o \in {0, 1}, c \in {0, 9}, g \in {"", "tag"},
        r \in {NoResults, Block(<<1, 2>>)},
        u \in {<<>>, <<"text">>}}

InitBox ==
    /\ ocr_boxes = <<>>
    /\ page = Page0
    /\ next_id = 1
    /\ last = NoCall
    /\ notified = <<>>
    /\ \E b \in ProbeBoxes :
          probe = [fn |-> "input", box |-> b, t |-> "", dict |-> OkDict(EmptyDict),
                   out |-> Ok(b)]

\* loaded = type(box).from_dict(box.to_dict())
ApplyRoundTrip ==
    /\ probe.fn = "input"
    /\ LET d == to_dict(probe.box)
       IN  probe' = [probe EXCEPT
                        !.fn = "round_trip",
                        !.dict = d,
                        !.out = IF d.ok THEN from_dict(probe.box.cls, d.d)
                                ELSE Raise(d.err, probe.box)]
    /\ UNCHANGED <<ocr_boxes, page, next_id, last, notified>>

\* new_box = box.convert_to(box_type)
ApplyConvertTo ==
    /\ probe.fn = "input"
    /\ \E box_type \in BoxType :
          probe' = [probe EXCEPT
                        !.fn = "convert_to",
                        !.t = box_type,
                        !.out = convert_to(probe.box, box_type)]
    /\ UNCHANGED <<ocr_boxes, page, next_id, last, notified>>

NextBox ==
    \/ ApplyRoundTrip
    \/ ApplyConvertTo

SpecBox == InitBox /\ [][NextBox]_vars

\* C3: for every variant and every field assignment, a non-null
\* recognition result included, from_dict(to_dict(box)) is a box equal to
\* the original in id, order, type, class, tag, confidence, geometry,
\* recognition result and (TextBox) user_text, and its to_dict equals the
\* original's to_dict.
C3_BoxRoundTrip ==
    probe.fn = "round_trip" =>
        LET b == probe.box
            l == probe.out.box
        IN  /\ probe.dict.ok
            /\ probe.out.ok
            /\ l.cls = b.cls
            /\ l.id = b.id /\ l.order = b.order /\ l.type = b.type
            /\ l.class_ = b.class_ /\ l.tag = b.tag
            /\ l.confidence = b.confidence
            /\ <<l.x, l.y, l.width, l.height>> = <<b.x, b.y, b.width, b.height>>
            /\ l.ocr_results = b.ocr_results
            /\ (IsTextBox(b) => l.user_text = b.user_text)
            /\ to_dict(l).ok
            /\ to_dict(l).d = probe.dict.d

\* C8: for every box and every target BoxType, convert_to(target) yields a
\* box whose recognition result is null when the target is FLOWING_IMAGE,
\* HEADING_IMAGE, PULLOUT_IMAGE, HORZ_LINE or VERT_LINE and is the source
\* box's recognition result for every other target.
C8_ConvertResults ==
    probe.fn = "convert_to" =>
        /\ probe.out.ok
        /\ probe.out.box.ocr_results =
              IF probe.t \in {"FLOWING_IMAGE", "HEADING_IMAGE", "PULLOUT_IMAGE",
                              "HORZ_LINE", "VERT_LINE"}
              THEN NoResults ELSE probe.box.ocr_results

----------------------------------------------------------------------------
(* SpecMerge: merge_ocr_box_with_ocr_box applied to layouts of three boxes *)

Geom(b) == <<b.x, b.y, b.width, b.height>>

\* A TextBox of every geometry of the bounded grid.
MergeBoxes(id) ==
    {NewBox("TextBox", id, x, y, w, 1, "FLOWING_TEXT") :
        x \in 0..MaxX, y \in 0..MaxX, w \in 1..MaxW}

\* The layout holds three boxes A, B, C (ids 1, 2, 3) at positions 0, 1, 2.
\* probe.out is the layout after one merge call; probe.left and probe.right
\* are two copies of the layout on which the two merge orders are run.
InitMerge ==
    /\ ocr_boxes = <<>>
    /\ page = Page0
    /\ next_id = 1
    /\ last = NoCall
    /\ notified = <<>>
    /\ \E A \in MergeBoxes(1), B \in MergeBoxes(2), C \in MergeBoxes(3) :
          probe = [fn |-> "input", boxes |-> update_order(<<A, B, C>>),
                   i |-> 0, j |-> 0,
                   out |-> <<>>, left |-> <<>>, right |-> <<>>]

\* page.merge_ocr_box_with_ocr_box(index1, index2) on the layout A, B, C
ApplyMerge ==
    /\ probe.fn = "input"
    /\ \E index1 \in 0..2, index2 \in 0..2 :
          probe' = [probe EXCEPT
                        !.fn = "merge", !.i = index1, !.j = index2,
                        !.out = merge_ocr_box_with_ocr_box(probe.boxes, index1, index2)]
    /\ UNCHANGED <<ocr_boxes, page, next_id, last, notified>>

\* First merge of each order: A with B on one copy, B with C on the other
MergeFirstPair ==
    /\ probe.fn = "input"
    /\ probe' = [probe EXCEPT
                    !.fn = "first",
                    !.left = merge_ocr_box_with_ocr_box(probe.boxes, 0, 1),
                    !.right = merge_ocr_box_with_ocr_box(probe.boxes, 1, 2)]
    /\ UNCHANGED <<ocr_boxes, page, next_id, last, notified>>

\* Second merge of each order: AB with C on one copy, BC with A on the other
MergeSecondPair ==
    /\ probe.fn = "first"
    /\ probe' = [probe EXCEPT
                    !.fn = "second",
                    !.left = merge_ocr_box_with_ocr_box(probe.left, 0, 1),
                    !.right = merge_ocr_box_with_ocr_box(probe.right, 1, 0)]
    /\ UNCHANGED <<ocr_boxes, page, next_id, last, notified>>

NextMerge ==
    \/ ApplyMerge
    \/ MergeFirstPair
    \/ MergeSecondPair

SpecMerge == InitMerge /\ [][NextMerge]_vars

\* The box of the given id in a box sequence.
BoxOfId(boxes, id) == boxes[CHOOSE k \in DOMAIN boxes : boxes[k].id = id]

\* C5: for every pair of distinct valid indices and every geometry, after
\* merge(index1, index2) box1's rectangle is the union bounding box of the
\* two rectangles as they were before the merge.
C5_MergeIsUnion ==
    (probe.fn = "merge" /\ probe.i # probe.j) =>
        LET b1 == probe.boxes[probe.i + 1]
            b2 == probe.boxes[probe.j + 1]
        IN  /\ b1.id \in Ids(probe.out)
            /\ LET m == BoxOfId(probe.out, b1.id)
               IN  /\ m.x = Min(b1.x, b2.x)
                   /\ m.y = Min(b1.y, b2.y)
                   /\ m.x + m.width = Max(b1.x + b1.width, b2.x + b2.width)
                   /\ m.y + m.height = Max(b1.y + b1.height, b2.y + b2.height)

\* C6: merging A with B and then the result with C gives the same bounding
\* geometry as merging B with C and then the result with A.
C6_MergeAssociative ==
    probe.fn = "second" =>
        /\ Len(probe.left) = 1
        /\ Len(probe.right) = 1
        /\ Geom(probe.left[1]) = Geom(probe.right[1])

----------------------------------------------------------------------------
(* SpecNotify: one box, its observers and its update calls *)

Observers == {"obs1", "obs2"}

Sources == {None, "GUI", "Backend"}

\* OCRBox.update_position(x, y, source): the box after the call and the
\* observers invoked during it. _update_source is set to source before
\* notify_callbacks(source) runs and reset to None after it.
update_position(b, x, y, source) ==
    LET moved == [b EXCEPT !.x = b.x + x, !.y = b.y + y, !.update_source = source]
    IN  [box |-> [moved EXCEPT !.update_source = None],
         notified |-> notify_callbacks(moved, source)]

\* OCRBox.update_size(width, height, source)
update_size(b, width, height, source) ==
    LET sized == [b EXCEPT !.width = width, !.height = height, !.update_source = source]
    IN  [box |-> [sized EXCEPT !.update_source = None],
         notified |-> notify_callbacks(sized, source)]

InitNotify ==
    /\ ocr_boxes = <<NewBox("TextBox", 1, 0, 0, 1, 1, "FLOWING_TEXT")>>
    /\ page = Page0
    /\ next_id = 2
    /\ last = NoCall
    /\ notified = <<>>
    /\ probe = NoProbe

\* box.add_callback(callback)
AddCallback ==
    /\ Len(ocr_boxes[1].callbacks) < MaxCallbacks
    /\ \E callback \in Observers :
          ocr_boxes' = [ocr_boxes EXCEPT ![1] = add_callback(@, callback)]
    /\ last' = Call("add_callback", 0, 0, "", "ok")
    /\ notified' = <<>>
    /\ UNCHANGED <<page, next_id, probe>>

\* box.update_position(x, y, source), called while no update is in progress
UpdatePosition ==
    /\ ocr_boxes[1].update_source = None
    /\ \E x \in {0 - 1, 1}, y \in {0 - 1, 1}, source \in Sources :
          /\ ocr_boxes[1].x + x \in 0..MaxX
          /\ ocr_boxes[1].y + y \in 0..MaxX
          /\ ocr_boxes' = [ocr_boxes EXCEPT ![1] = update_position(@, x, y, source).box]
          /\ notified' = update_position(ocr_boxes[1], x, y, source).notified
          /\ last' = Call("update_position", x, y, source, "ok")
    /\ UNCHANGED <<page, next_id, probe>>

\* box.update_size(width, height, source), called while no update is in progress
UpdateSize ==
    /\ ocr_boxes[1].update_source = None
    /\ \E width \in 1..MaxW, height \in 1..MaxW, source \in Sources :
          /\ ocr_boxes' = [ocr_boxes EXCEPT ![1] = update_size(@, width, height, source).box]
          /\ notified' = update_size(ocr_boxes[1], width, height, source).notified
          /\ last' = Call("update_size", width, height, source, "ok")
    /\ UNCHANGED <<page, next_id, probe>>

\* box.notify_callbacks("Backend"), as Page calls it after a backend change
NotifyBackend ==
    /\ notified' = notify_callbacks(ocr_boxes[1], "Backend")
    /\ last' = Call("notify_callbacks", 0, 0, "Backend", "ok")
    /\ UNCHANGED <<ocr_boxes, page, next_id, probe>>

NextNotify ==
    \/ AddCallback
    \/ UpdatePosition
    \/ UpdateSize
    \/ NotifyBackend

SpecNotify == InitNotify /\ [][NextNotify]_vars

\* C10: when no update is in progress, update_position(dx, dy, source) and
\* update_size(w, h, source) with any source commit the geometry change and
\* invoke every registered observer exactly once, in registration order,
\* before the call returns.
C10_UpdateNotifiesAll ==
    last.op \in {"update_position", "update_size"} =>
        notified = ocr_boxes[1].callbacks

----------------------------------------------------------------------------
(* SpecGuard: update and notification calls that observers re-enter *)

\* The observers of this specification, by what their body does: "view"
\* reads the box and returns; "echo" calls update_position or update_size
\* on the same box, with the source of the notification that invoked it.
ObserverKinds == {"view", "echo"}

\* One activation on the call stack. kind "update": update_position or
\* update_size (pc "set", "notify", "reset"); kind "notify": the loop of
\* notify_callbacks over `cbs`, k the next callback; kind "observer": the
\* body of callback `obs` (pc "body", "done").
Frame(kind, source, pc, k, obs, cbs) ==
    [kind |-> kind, source |-> source, pc |-> pc, k |-> k, obs |-> obs, cbs |-> cbs]

UpdateFrame(source) == Frame("update", source, "set", 0, "", <<>>)

Top(stack) == stack[Len(stack)]

Pop(stack) == SubSeq(stack, 1, Len(stack) - 1)

SetTop(stack, f) == [stack EXCEPT ![Len(stack)] = f]

\* Sequences over S of length 0..n
RECURSIVE SeqsUpTo(_, _)
SeqsUpTo(S, n) ==
    IF n = 0 THEN {<<>>}
    ELSE SeqsUpTo(S, n - 1) \cup
         {Append(q, e) : q \in {r \in SeqsUpTo(S, n - 1) : Len(r) = n - 1}, e \in S}

InitGuard ==
    /\ \E cbs \in SeqsUpTo(ObserverKinds, MaxCallbacks) :
          ocr_boxes = <<[NewBox("TextBox", 1, 0, 0, 1, 1, "FLOWING_TEXT")
                            EXCEPT !.callbacks = cbs]>>
    /\ page = Page0
    /\ next_id = 2
    /\ last = NoCall
    /\ notified = <<>>
    /\ probe = [fn |-> "stack", stack |-> <<>>]

\* A caller outside the box calls update_position or update_size.
CallUpdate ==
    /\ probe.stack = <<>>
    /\ \E source \in Sources :
          /\ probe' = [probe EXCEPT !.stack = <<UpdateFrame(source)>>]
          /\ last' = Call("update", 0, 0, source, "running")
    /\ notified' = <<>>
    /\ UNCHANGED <<ocr_boxes, page, next_id>>

\* Page calls box.notify_callbacks("Backend") after a backend change.
CallNotify ==
    /\ probe.stack = <<>>
    /\ LET cbs == notify_callbacks(ocr_boxes[1], "Backend")
       IN  probe' = [probe EXCEPT !.stack =
                        IF cbs # <<>>
                        THEN <<Frame("notify", "Backend", "loop", 1, "", cbs)>>
                        ELSE <<>>]
    /\ last' = Call("notify_callbacks", 0, 0, "Backend", "running")
    /\ notified' = <<>>
    /\ UNCHANGED <<ocr_boxes, page, next_id>>

\* ocr_box.py:117-119 / 130-132: the geometry is committed and
\* _update_source is set to the source of the call.
UpdateSet ==
    /\ probe.stack # <<>>
    /\ Top(probe.stack).kind = "update"
    /\ Top(probe.stack).pc = "set"
    /\ \E width \in 1..MaxW :
          ocr_boxes' = [ocr_boxes EXCEPT ![1].width = width,
                                         ![1].update_source = Top(probe.stack).source]
    /\ probe' = [probe EXCEPT !.stack = SetTop(@, [Top(@) EXCEPT !.pc = "notify"])]
    /\ UNCHANGED <<page, next_id, last, notified>>

\* ocr_box.py:120 / 133: self.notify_callbacks(source)
UpdateNotify ==
    /\ probe.stack # <<>>
    /\ Top(probe.stack).kind = "update"
    /\ Top(probe.stack).pc = "notify"
    /\ LET f == Top(probe.stack)
           cbs == notify_callbacks(ocr_boxes[1], f.source)
           stack == SetTop(probe.stack, [f EXCEPT !.pc = "reset"])
       IN  /\ cbs # <<>> => Len(probe.stack) < MaxDepth
           /\ probe' = [probe EXCEPT !.stack =
                            IF cbs # <<>>
                            THEN Append(stack, Frame("notify", f.source, "loop", 1, "", cbs))
                            ELSE stack]
    /\ UNCHANGED <<ocr_boxes, page, next_id, last, notified>>

\* ocr_box.py:121 / 134: self._update_source = None, and the call returns.
UpdateReset ==
    /\ probe.stack # <<>>
    /\ Top(probe.stack).kind = "update"
    /\ Top(probe.stack).pc = "reset"
    /\ ocr_boxes' = [ocr_boxes EXCEPT ![1].update_source = None]
    /\ probe' = [probe EXCEPT !.stack = Pop(@)]
    /\ last' = IF Len(probe.stack) = 1 THEN [last EXCEPT !.result = "ok"] ELSE last
    /\ UNCHANGED <<page, next_id, notified>>

\* ocr_box.py:106-107: the next callback of the loop is invoked, or the
\* loop ends and notify_callbacks returns.
NotifyLoop ==
    /\ probe.stack # <<>>
    /\ Top(probe.stack).kind = "notify"
    /\ LET f == Top(probe.stack)
       IN  IF f.k <= Len(f.cbs)
           THEN /\ Len(probe.stack) < MaxDepth
                /\ probe' = [probe EXCEPT !.stack =
                                Append(SetTop(@, [f EXCEPT !.k = f.k + 1]),
                                       Frame("observer", f.source, "body", 0, f.cbs[f.k], <<>>))]
                /\ notified' = Append(notified, f.cbs[f.k])
                /\ last' = last
           ELSE /\ probe' = [probe EXCEPT !.stack = Pop(@)]
                /\ notified' = notified
                /\ last' = IF Len(probe.stack) = 1 THEN [last EXCEPT !.result = "ok"] ELSE last
    /\ UNCHANGED <<ocr_boxes, page, next_id>>

\* The body of an observer: an "echo" observer calls an update on the box
\* with the source it was triggered by, then returns; a "view" returns.
ObserverBody ==
    /\ probe.stack # <<>>
    /\ Top(probe.stack).kind = "observer"
    /\ LET f == Top(probe.stack)
       IN  IF f.obs = "echo" /\ f.pc = "body"
           THEN /\ Len(probe.stack) < MaxDepth
                /\ probe' = [probe EXCEPT !.stack =
                                Append(SetTop(@, [f EXCEPT !.pc = "done"]),
                                       UpdateFrame(f.source))]
           ELSE probe' = [probe EXCEPT !.stack = Pop(@)]
    /\ UNCHANGED <<ocr_boxes, page, next_id, last, notified>>

NextGuard ==
    \/ CallUpdate
    \/ CallNotify
    \/ UpdateSet
    \/ UpdateNotify
    \/ UpdateReset
    \/ NotifyLoop
    \/ ObserverBody

SpecGuard == InitGuard /\ [][NextGuard]_vars

\* C11: while an observer is being notified with source S and has called
\* update_position or update_size on the same box with source S, no
\* observer is invoked inside that nested update; and one outside call
\* invokes at most as many observers as are registered, so it ends after
\* finitely many invocations.
C11_NoReNotifySameSource ==
    /\ \A i, j, k \in DOMAIN probe.stack :
          (i < j /\ j < k
           /\ probe.stack[i].kind = "observer"
           /\ probe.stack[j].kind = "update"
           /\ probe.stack[j].source = probe.stack[i].source)
          => probe.stack[k].kind # "observer"
    /\ Len(notified) <= Len(ocr_boxes[1].callbacks)

\* An echo observer, invoked for "Backend", has called an update with
\* source "Backend", and that update is past its notify_callbacks call.
C11_Witness ==
    /\ Len(probe.stack) = 3
    /\ probe.stack[2].kind = "observer"
    /\ probe.stack[2].obs = "echo"
    /\ probe.stack[3].kind = "update"
    /\ probe.stack[3].source = probe.stack[2].source
    /\ probe.stack[3].pc = "reset"

----------------------------------------------------------------------------
(* SpecGeom: the calls that change a box's rectangle *)

\* OCRBox.expand(expansion_amount)
expand(b, expansion_amount) ==
    [b EXCEPT !.x = @ - expansion_amount,
              !.y = @ - expansion_amount,
              !.width = @ + 2 * expansion_amount,
              !.height = @ + 2 * expansion_amount]

\* OCRBox.shrink(shrink_amount)
shrink(b, shrink_amount) ==
    [b EXCEPT !.x = @ + shrink_amount,
              !.y = @ + shrink_amount,
              !.width = @ - 2 * shrink_amount,
              !.height = @ - 2 * shrink_amount]

\* The rectangles the model follows: coordinates and sizes within MaxDim.
InGrid(b) ==
    /\ b.x \in (0 - MaxDim)..MaxDim
    /\ b.y \in (0 - MaxDim)..MaxDim
    /\ b.width \in (0 - MaxDim)..MaxDim
    /\ b.height \in (0 - MaxDim)..MaxDim

\* A page of two boxes, each with a non-negative width and height.
InitGeom ==
    /\ \E w \in 0..MaxW, h \in 0..MaxW :
          ocr_boxes = update_order(<<NewBox("TextBox", 1, 0, 0, w, h, "FLOWING_TEXT"),
                                     NewBox("TextBox", 2, 1, 1, 1, 1, "FLOWING_TEXT")>>)
    /\ page = Page0
    /\ next_id = 3
    /\ last = NoCall
    /\ notified = <<>>
    /\ probe = NoProbe

\* box.expand(n) on the first box
Expand ==
    /\ \E n \in 0..MaxAmount :
          /\ InGrid(expand(ocr_boxes[1], n))
          /\ ocr_boxes' = [ocr_boxes EXCEPT ![1] = expand(@, n)]
          /\ last' = Call("expand", n, 0, "", "ok")
    /\ UNCHANGED <<page, next_id, notified, probe>>

\* box.shrink(n) on the first box
Shrink ==
    /\ \E n \in 0..MaxAmount :
          /\ InGrid(shrink(ocr_boxes[1], n))
          /\ ocr_boxes' = [ocr_boxes EXCEPT ![1] = shrink(@, n)]
          /\ last' = Call("shrink", n, 0, "", "ok")
    /\ UNCHANGED <<page, next_id, notified, probe>>

\* box.update_size(width, height, "GUI") on the first box
GeomUpdateSize ==
    /\ \E width \in 0..MaxW, height \in 0..MaxW :
          /\ ocr_boxes' = [ocr_boxes EXCEPT ![1] = update_size(@, width, height, "GUI").box]
          /\ last' = Call("update_size", width, height, "GUI", "ok")
    /\ UNCHANGED <<page, next_id, notified, probe>>

\* page.merge_ocr_box_with_ocr_box(0, 1)
GeomMerge ==
    /\ Len(ocr_boxes) = 2
    /\ ocr_boxes' = merge_ocr_box_with_ocr_box(ocr_boxes, 0, 1)
    /\ last' = Call("merge", 0, 1, "", "ok")
    /\ UNCHANGED <<page, next_id, notified, probe>>

NextGeom ==
    \/ Expand
    \/ Shrink
    \/ GeomUpdateSize
    \/ GeomMerge

SpecGeom == InitGeom /\ [][NextGeom]_vars

\* C12: in every state reached by expand(n), shrink(n), update_size and
\* merge calls, every box has width >= 0 and height >= 0; shrink(n) with
\* 2n greater than the width or height leaves no negative dimension.
C12_NonNegativeDims ==
    \A k \in DOMAIN ocr_boxes : ocr_boxes[k].width >= 0 /\ ocr_boxes[k].height >= 0

----------------------------------------------------------------------------
(* Page orchestration: analysis over the external backend *)

\* A Page with its image reference (None when unset) and its recognition
\* backend (ocr_processor set or None).
PageOf(image_path, ocr_processor) ==
    [image_path |-> image_path, order |-> 0,
     region |-> <<0, 0, 0, 0>>, header_y |-> 0, footer_y |-> 0,
     ocr_processor |-> ocr_processor]

\* The size of the page image, as ImagePreprocessor.get_image_size gives it.
ImageRegion == <<0, 0, MaxDim, MaxDim>>

\* layout.set_region(image size): the layout's region becomes the image's.
set_region(pg, region) == [pg EXCEPT !.region = region]

RECURSIVE InsertByOrder(_, _)
\* b placed after every box of the sorted sequence whose order is <= b's
InsertByOrder(sorted, b) ==
    IF sorted = <<>> THEN <<b>>
    ELSE IF Head(sorted).order <= b.order
         THEN <<Head(sorted)>> \o InsertByOrder(Tail(sorted), b)
         ELSE <<b>> \o sorted

RECURSIVE SortByOrder(_)
\* list.sort(key=order): stable, ascending
SortByOrder(boxes) ==
    IF boxes = <<>> THEN <<>>
    ELSE InsertByOrder(SortByOrder(SubSeq(boxes, 1, Len(boxes) - 1)), boxes[Len(boxes)])

\* PageLayout.sort_boxes
sort_boxes(boxes) == update_order(SortByOrder(boxes))

\* layout.sort_ocr_boxes_by_order(), the name Page.analyze_page calls
sort_ocr_boxes_by_order(boxes) == sort_boxes(boxes)

\* settings.get("box_types"): None, or the list of allowed types
NoBoxTypes == [none |-> TRUE, types |-> {}]
BoxTypesOf(types) == [none |-> FALSE, types |-> types]

\* Project settings read by analyze_page: box_types and the two size
\* thresholds.
SettingsOf(box_types, x_size_threshold, y_size_threshold) ==
    [box_types |-> box_types, x_size_threshold |-> x_size_threshold,
     y_size_threshold |-> y_size_threshold]

RECURSIVE SelectBoxes(_, _)
\* [box for box in boxes if keep(box)], keep given as the set of kept ids
SelectBoxes(boxes, keep) ==
    IF boxes = <<>> THEN <<>>
    ELSE IF Head(boxes).id \in keep
         THEN <<Head(boxes)>> \o SelectBoxes(Tail(boxes), keep)
         ELSE SelectBoxes(Tail(boxes), keep)

\* page.py:51-72: the filter by box types and the filter by size
FilterBoxes(found, settings, filter_by_box_types, filter_by_size) ==
    LET byType == IF filter_by_box_types /\ ~settings.box_types.none
                  THEN {found[k].id : k \in {m \in DOMAIN found :
                                                found[m].type \in settings.box_types.types}}
                  ELSE Ids(found)
        bySize == IF filter_by_size
                     /\ (settings.x_size_threshold > 0 \/ settings.y_size_threshold > 0)
                  THEN {found[k].id : k \in {m \in DOMAIN found :
                                                /\ found[m].width >= settings.x_size_threshold
                                                /\ found[m].height >= settings.y_size_threshold}}
                  ELSE Ids(found)
    IN  SelectBoxes(found, byType \cap bySize)

\* max([box.order for box in boxes], default=-1)
MaxOrder(boxes) ==
    IF boxes = <<>> THEN 0 - 1
    ELSE CHOOSE o \in {boxes[k].order : k \in DOMAIN boxes} :
            \A k \in DOMAIN boxes : boxes[k].order <= o

\* page.py:74-78: the new boxes numbered from max_order + 1
NumberFrom(found, max_order) ==
    [k \in DOMAIN found |-> [found[k] EXCEPT !.order = max_order + k]]

\* The outcome of a Page call: it returned or raised, and the page and
\* layout it left; `ret` is the list it returned, `log` the observers it
\* invoked.
Outcome(ok, err, pg, boxes, ret) ==
    [ok |-> ok, err |-> err, page |-> pg, boxes |-> boxes, ret |-> ret]

\* What ocr_processor.analyze_layout did: raised, or returned `found`.
BackendResult(raises, found) == [raises |-> raises, found |-> found]

\* Page.analyze_page(project_settings, region, keep_existing_boxes,
\* filter_by_box_types, filter_by_size); region_given is region is not None.
analyze_page(pg, boxes, settings, region_given, keep_existing_boxes, filter_by_box_types, filter_by_size, backend) ==
    IF pg.image_path = None THEN Outcome(TRUE, "", pg, boxes, <<>>)
    ELSE LET pg1 == IF region_given THEN pg ELSE set_region(pg, ImageRegion)
         IN  IF ~pg.ocr_processor
             THEN Outcome(FALSE, "Exception", pg1, boxes, <<>>)
             ELSE IF backend.raises
             THEN Outcome(FALSE, "BackendError", pg1, boxes, <<>>)
             ELSE LET new == NumberFrom(
                                FilterBoxes(backend.found, settings,
                                            filter_by_box_types, filter_by_size),
                                MaxOrder(boxes))
                      all == IF keep_existing_boxes THEN boxes \o new ELSE new
                      sorted == sort_ocr_boxes_by_order(all)
                  IN  Outcome(TRUE, "", pg1, sorted,
                              [k \in DOMAIN new |-> BoxOfId(sorted, new[k].id)])

----------------------------------------------------------------------------
(* Page orchestration: re-analysis of one box, alignment, recognition *)

\* The outcome of a Page call on the layout: it returned or raised, the box
\* sequence it left, and the notifications it made, each <<box id, observer>>.
Done(ok, err, boxes, log) == [ok |-> ok, err |-> err, boxes |-> boxes, log |-> log]

\* The notifications of box.notify_callbacks(source)
NotifyLog(b, source) ==
    [k \in DOMAIN notify_callbacks(b, source) |-> <<b.id, notify_callbacks(b, source)[k]>>]

\* Page.analyze_region: [] without an image reference, the backend's list
\* with a backend, an exception without one or when the backend raises.
analyze_region(pg, backend) ==
    IF pg.image_path = None THEN [ok |-> TRUE, err |-> "", found |-> <<>>]
    ELSE IF ~pg.ocr_processor THEN [ok |-> FALSE, err |-> "Exception", found |-> <<>>]
    ELSE IF backend.raises THEN [ok |-> FALSE, err |-> "BackendError", found |-> <<>>]
    ELSE [ok |-> TRUE, err |-> "", found |-> backend.found]

\* Page.analyze_ocr_box_: [] for an invalid index and for any exception of
\* analyze_region (caught and logged).
analyze_ocr_box_(pg, boxes, box_index, backend) ==
    IF ~is_valid_box_index(boxes, box_index) THEN <<>>
    ELSE IF analyze_region(pg, backend).ok THEN analyze_region(pg, backend).found
    ELSE <<>>

RECURSIVE AddAll(_, _)
\* for recognized_box in recognized_boxes: layout.add_ocr_box(recognized_box)
AddAll(boxes, found) ==
    IF found = <<>> THEN boxes
    ELSE AddAll(add_ocr_box(boxes, Head(found)), Tail(found))

\* analyze_ocr_box that leaves the single recognized box its own (empty)
\* callbacks list
analyze_ocr_box_drop_callbacks(pg, boxes, ocr_box_index, backend) ==
    LET recognized_boxes == analyze_ocr_box_(pg, boxes, ocr_box_index, backend)
    IN  IF Len(recognized_boxes) = 1
        THEN LET old == boxes[ocr_box_index + 1]
                 new == [recognized_boxes[1] EXCEPT
                            !.id = old.id,
                            !.order = old.order,
                            !.user_data = old.user_data]
             IN  Done(TRUE, "", ListSet(boxes, ocr_box_index, new), NotifyLog(new, "Backend"))
        ELSE IF ~ListIndexOk(boxes, ocr_box_index)
        THEN Done(FALSE, "IndexError", boxes, <<>>)
        ELSE Done(TRUE, "", AddAll(remove_ocr_box(boxes, ocr_box_index), recognized_boxes), <<>>)

\* Page.analyze_ocr_box. One recognized box replaces the original in place,
\* with the original's id, order, callbacks and user_data, and notifies;
\* otherwise the original is removed (list.pop raises IndexError for an
\* index outside -n..n-1) and the recognized boxes are added.
analyze_ocr_box(pg, boxes, ocr_box_index, backend) ==
    LET recognized_boxes == analyze_ocr_box_(pg, boxes, ocr_box_index, backend)
    IN  IF Len(recognized_boxes) = 1
        THEN LET old == boxes[ocr_box_index + 1]
                 new == [recognized_boxes[1] EXCEPT
                            !.id = old.id,
                            !.order = old.order,
                            !.callbacks = old.callbacks,
                            !.user_data = old.user_data]
             IN  Done(TRUE, "", ListSet(boxes, ocr_box_index, new), NotifyLog(new, "Backend"))
        ELSE IF ~ListIndexOk(boxes, ocr_box_index)
        THEN Done(FALSE, "IndexError", boxes, <<>>)
        ELSE Done(TRUE, "", AddAll(remove_ocr_box(boxes, ocr_box_index), recognized_boxes), <<>>)

Abs(a) == IF a >= 0 THEN a ELSE 0 - a

\* OCRBox.similarity(other) = 1 - num / den, as the pair <<num, den>>
similarity(self, other) ==
    <<Abs(self.x - other.x) + Abs(self.y - other.y)
        + Abs(self.width - other.width) + Abs(self.height - other.height),
      self.width + self.height>>

\* a.similarity(cur) > b.similarity(cur), for non-zero denominators:
\* 1 - n1/d1 > 1 - n2/d2
SimilarityGreater(a, b, cur) ==
    LET s1 == similarity(a, cur)
        s2 == similarity(b, cur)
    IN  IF s1[2] * s2[2] > 0 THEN s1[1] * s2[2] < s2[1] * s1[2]
        ELSE s1[1] * s2[2] > s2[1] * s1[2]

RECURSIVE BestBox_later_on_ties(_, _, _)
\* The loop with >= in place of >: the later candidate wins a tie
BestBox_later_on_ties(candidates, best, cur) ==
    IF candidates = <<>> THEN best
    ELSE BestBox_later_on_ties(Tail(candidates),
                 IF ~SimilarityGreater(best, Head(candidates), cur)
                 THEN Head(candidates) ELSE best,
                 cur)

RECURSIVE BestBox(_, _, _)
\* page.py:141-149: the loop keeping the candidate with the highest score,
\* the earlier one on ties
BestBox(candidates, best, cur) ==
    IF candidates = <<>> THEN best
    ELSE BestBox(Tail(candidates),
                 IF SimilarityGreater(Head(candidates), best, cur)
                 THEN Head(candidates) ELSE best,
                 cur)

\* Page.align_ocr_box. similarity divides by the receiver's width + height:
\* with two or more candidates every one is scored, and a candidate of
\* width + height 0 raises ZeroDivisionError.
align_ocr_box(pg, boxes, ocr_box_index, backend) ==
    LET recognized_boxes == analyze_ocr_box_(pg, boxes, ocr_box_index, backend)
    IN  IF Len(recognized_boxes) > 0
        THEN IF Len(recognized_boxes) > 1
                /\ \E k \in DOMAIN recognized_boxes :
                      recognized_boxes[k].width + recognized_boxes[k].height = 0
             THEN Done(FALSE, "ZeroDivisionError", boxes, <<>>)
             ELSE LET cur == boxes[ocr_box_index + 1]
                      best_box == BestBox(Tail(recognized_boxes), recognized_boxes[1], cur)
                  IN  Done(TRUE, "",
                           ListSet(boxes, ocr_box_index,
                                   [cur EXCEPT !.x = best_box.x, !.y = best_box.y,
                                               !.width = best_box.width,
                                               !.height = best_box.height]),
                           <<>>)
        ELSE IF ~ListIndexOk(boxes, ocr_box_index)
        THEN Done(FALSE, "IndexError", boxes, <<>>)
        ELSE Done(TRUE, "", remove_ocr_box(boxes, ocr_box_index), <<>>)

----------------------------------------------------------------------------
(* SpecAnalyze: a Page driven by analysis, merge and conversion calls *)

\* A box as the backend's layout analysis reports it.
FoundBox(id, type, x, width) ==
    NewBox(BOX_TYPE_MAP[type], id, x, 0, width, 1, type)

\* The lists analyze_layout may return: up to two boxes with fresh
\* identities first_id, first_id + 1, ...
FoundLists(first_id) ==
    {<<>>}
    \cup {<<FoundBox(first_id, t, g[1], g[2])>> :
            t \in LayoutTypes, g \in {<<0, 1>>, <<1, 2>>}}
    \cup {<<FoundBox(first_id, t1, 0, 1), FoundBox(first_id + 1, t2, 1, 2)>> :
            t1 \in LayoutTypes, t2 \in LayoutTypes}

\* What the backend may do with a call: raise, or return one of the lists.
BackendResults(first_id) ==
    {BackendResult(TRUE, <<>>)}
    \cup {BackendResult(FALSE, found) : found \in FoundLists(first_id)}

\* The project settings the page is analyzed with.
SettingsChoices ==
    {SettingsOf(box_types, x_size_threshold, 0) :
        box_types \in {NoBoxTypes, BoxTypesOf({"FLOWING_TEXT"})}, x_size_threshold \in {0, 2}}

InitAnalyze ==
    /\ ocr_boxes = <<>>
    /\ \E image_path \in {"data/1.jpeg", None}, ocr_processor \in BOOLEAN :
          page = PageOf(image_path, ocr_processor)
    /\ next_id = 1
    /\ last = NoCall
    /\ notified = <<>>
    /\ probe = NoProbe

\* page.analyze_page(settings, region, keep_existing_boxes, ...)
AnalyzePage ==
    /\ \E settings \in SettingsChoices, region_given \in BOOLEAN,
          keep_existing_boxes \in BOOLEAN, filter \in BOOLEAN,
          backend \in BackendResults(next_id) :
          LET r == analyze_page(page, ocr_boxes, settings, region_given,
                                keep_existing_boxes, filter, filter, backend)
          IN  /\ Len(ocr_boxes) + Len(backend.found) <= MaxBoxes
              /\ next_id + Len(backend.found) - 1 <= MaxAnalyzeIds
              /\ ocr_boxes' = r.boxes
              /\ page' = r.page
              /\ next_id' = next_id + Len(backend.found)
              /\ last' = Call("analyze_page", 0, 0,
                              IF keep_existing_boxes THEN "keep" ELSE "replace",
                              IF r.ok THEN "ok" ELSE r.err)
              /\ probe' = [fn |-> "analyze", ret |-> [k \in DOMAIN r.ret |-> r.ret[k].id],
                           called |-> page.image_path # None /\ page.ocr_processor]
    /\ notified' = <<>>

NextAnalyze ==
    \/ AnalyzePage
    \/ MergeOcrBoxes

SpecAnalyze == InitAnalyze /\ [][NextAnalyze]_vars

\* C13: analyze with keep_existing = true appends: every pre-existing box
\* keeps its position and order and the surviving new boxes follow them in
\* the backend's order, numbered on from the previous maximum; with
\* keep_existing = false the layout is exactly the surviving new boxes,
\* with order values 0..k-1.
C13_AnalyzeAppendsOrReplaces ==
    [][(last'.op = "analyze_page" /\ last'.result = "ok" /\ probe'.called) =>
          LET n == Len(ocr_boxes)
              ret == probe'.ret
              k == Len(ret)
          IN  IF last'.t = "keep"
              THEN /\ Len(ocr_boxes') = n + k
                   /\ \A i \in 1..n : i \in DOMAIN ocr_boxes' /\ ocr_boxes'[i] = ocr_boxes[i]
                   /\ \A j \in 1..k :
                         /\ ocr_boxes'[n + j].id = ret[j]
                         /\ ocr_boxes'[n + j].order = MaxOrder(ocr_boxes) + j
              ELSE /\ Len(ocr_boxes') = k
                   /\ \A j \in 1..k :
                         /\ ocr_boxes'[j].id = ret[j]
                         /\ ocr_boxes'[j].order = j - 1]_vars

----------------------------------------------------------------------------
(* SpecRefine: boxes added by the editor, then re-analyzed or deleted *)

\* How the backend call of a Page operation went: the page has no image
\* reference, no backend, or the backend raised or returned.
BackendStatus(pg, backend) ==
    IF pg.image_path = None THEN "no image"
    ELSE IF ~pg.ocr_processor THEN "no backend"
    ELSE IF backend.raises THEN "raised"
    ELSE "returned"

\* A text box the backend reports at the given rectangle.
CandidateBox(id, x, y, width) == NewBox("TextBox", id, x, y, width, 1, "FLOWING_TEXT")

\* The candidate lists the backend may return for a box's region: boxes of
\* positive width and height. The pairs are one whose two candidates score
\* the same against a box at (0, 0, 1, 1), one whose second candidate
\* scores higher and one whose first does.
Candidates(first_id) ==
    {<<>>,
     <<FoundBox(first_id, "FLOWING_IMAGE", 1, 2)>>,
     <<CandidateBox(first_id, 1, 0, 1), CandidateBox(first_id + 1, 0, 1, 1)>>,
     <<CandidateBox(first_id, 1, 0, 2), CandidateBox(first_id + 1, 0, 0, 1)>>,
     <<CandidateBox(first_id, 0, 0, 1), CandidateBox(first_id + 1, 1, 0, 2)>>}

RefineResults(first_id) ==
    {BackendResult(TRUE, <<>>)}
    \cup {BackendResult(FALSE, found) : found \in Candidates(first_id)}

InitRefine ==
    /\ ocr_boxes = <<>>
    /\ \E image_path \in {"data/1.jpeg", None}, ocr_processor \in BOOLEAN :
          page = PageOf(image_path, ocr_processor)
    /\ next_id = 1
    /\ last = NoCall
    /\ notified = <<>>
    /\ probe = NoProbe

\* An identity no box of the layout has. uuid4 never repeats; the model
\* reuses the identity of a box that is gone, which no operation can tell
\* from a new one.
FreshId(boxes, k) ==
    CHOOSE id \in 1..(Len(boxes) + k) :
        Cardinality({i \in 1..id : i \notin Ids(boxes)}) = k

\* The backend's boxes, given identities that are fresh in the layout
WithFreshIds(found, boxes) ==
    [k \in DOMAIN found |-> [found[k] EXCEPT !.id = FreshId(boxes, k)]]

\* PageEditorController.add_new_box with a new text box
RefineAddBox ==
    /\ Len(ocr_boxes) < MaxRefineBoxes
    /\ ocr_boxes' = add_ocr_box(ocr_boxes,
                        add_callback(FoundBox(FreshId(ocr_boxes, 1), "FLOWING_TEXT", 0, 1),
                                     on_ocr_box_updated))
    /\ last' = Call("add_new_box", 0, 0, "", "ok")
    /\ notified' = <<>>
    /\ probe' = NoProbe
    /\ UNCHANGED <<page, next_id>>

\* page.analyze_ocr_box(ocr_box_index)
AnalyzeOcrBox ==
    /\ \E ocr_box_index \in (0 - 1)..Len(ocr_boxes), backend \in RefineResults(0) :
          LET found == WithFreshIds(backend.found, ocr_boxes)
              r == analyze_ocr_box(page, ocr_boxes, ocr_box_index,
                                   BackendResult(backend.raises, found))
          IN  /\ Len(r.boxes) <= MaxRefineBoxes
              /\ ocr_boxes' = r.boxes
              /\ notified' = r.log
              /\ last' = Call("analyze_ocr_box", ocr_box_index, 0,
                              BackendStatus(page, backend),
                              IF r.ok THEN "ok" ELSE r.err)
              /\ probe' = [fn |-> "refine", found |-> found]
    /\ UNCHANGED <<page, next_id>>

\* page.align_ocr_box(ocr_box_index)
AlignOcrBox ==
    /\ \E ocr_box_index \in (0 - 1)..Len(ocr_boxes), backend \in RefineResults(0) :
          LET r == align_ocr_box(page, ocr_boxes, ocr_box_index, backend)
          IN  /\ ocr_boxes' = r.boxes
              /\ notified' = r.log
              /\ last' = Call("align_ocr_box", ocr_box_index, 0,
                              BackendStatus(page, backend),
                              IF r.ok THEN "ok" ELSE r.err)
              /\ probe' = [fn |-> "refine", found |-> backend.found]
    /\ UNCHANGED <<page, next_id>>

NextRefine ==
    \/ RefineAddBox
    \/ AnalyzeOcrBox
    \/ DelItem

SpecRefine == InitRefine /\ [][NextRefine]_vars

\* The notifications a box's observers receive when each is invoked once
ObserversOnce(b) == [k \in DOMAIN b.callbacks |-> <<b.id, b.callbacks[k]>>]

C18_InvalidIndexIsNoOp ==
    [][(/\ last'.op \in {"analyze_ocr_box", "align_ocr_box"}
        /\ last'.i \notin 0..(Len(ocr_boxes) - 1))
       => /\ last'.result = "ok"
          /\ ocr_boxes' = ocr_boxes]_vars

\* C19: when the page has no image reference or no recognition backend,
\* analyze_page, analyze_ocr_box and align_ocr_box (on a valid index) return
\* without raising, and the layout's box sequence, every box, and the
\* page's region, header_y and footer_y are as before the call.
C19_NoImageOrBackendIsNoOp ==
    [][(/\ last'.op \in {"analyze_page", "analyze_ocr_box", "align_ocr_box"}
        /\ (page.image_path = None \/ ~page.ocr_processor)
        /\ (last'.op = "analyze_page" \/ last'.i \in 0..(Len(ocr_boxes) - 1)))
       => /\ last'.result = "ok"
          /\ ocr_boxes' = ocr_boxes
          /\ page' = page]_vars

\* C20: when the backend call made by analyze_ocr_box or align_ocr_box (on a
\* valid index) raises, the box at the index is still in the layout,
\* unchanged, and the layout's sequence and orders are unchanged.
C20_BackendFailureIsNoOp ==
    [][(/\ last'.op \in {"analyze_ocr_box", "align_ocr_box"}
        /\ last'.t = "raised"
        /\ last'.i \in 0..(Len(ocr_boxes) - 1))
       => ocr_boxes' = ocr_boxes]_vars

----------------------------------------------------------------------------
(* SpecAlign: boxes added by the editor, then aligned to re-analyzed candidates *)

NextAlign ==
    \/ RefineAddBox
    \/ AlignOcrBox

SpecAlign == InitRefine /\ [][NextAlign]_vars

\* Candidate a scores strictly higher against cur than candidate b does:
\* 1 - na/da > 1 - nb/db with positive da and db.
ScoresHigher(a, b, cur) ==
    (Abs(a.x - cur.x) + Abs(a.y - cur.y) + Abs(a.width - cur.width)
        + Abs(a.height - cur.height)) * (b.width + b.height)
    < (Abs(b.x - cur.x) + Abs(b.y - cur.y) + Abs(b.width - cur.width)
        + Abs(b.height - cur.height)) * (a.width + a.height)

----------------------------------------------------------------------------
(* Page.recognize_ocr_boxes *)

MaxRecognizeBoxes == 2

\* OCRResultBlock.get_text as far as has_text reads it: the text is
\* non-empty exactly when the block holds a paragraph.
get_text(b) == IF Truthy(b.ocr_results) THEN b.ocr_results.paragraphs ELSE <<>>

\* has_text that takes any recognition result for text
has_text_any_result(b) == Truthy(b.ocr_results)

\* TextBox.has_text
has_text(b) ==
    IF ~Truthy(b.ocr_results) THEN FALSE
    ELSE Len(get_text(b)) > 0

\* ocr_processor.recognize_boxes: it raises, or it gives every box handed
\* to it the recognition result results[k].
RecognizeResult(raises, results) == [raises |-> raises, results |-> results]

RECURSIVE ConvertEmptyTextBoxes(_, _)
\* The loop of lines 207-210 from index i on: every TextBox without text is
\* converted in place to FLOWING_IMAGE.
ConvertEmptyTextBoxes(boxes, i) ==
    IF i >= Len(boxes) THEN boxes
    ELSE ConvertEmptyTextBoxes(
             IF IsTextBox(boxes[i + 1]) /\ ~has_text(boxes[i + 1])
             THEN convert_ocr_box(boxes, i, "FLOWING_IMAGE")
             ELSE boxes,
             i + 1)

RECURSIVE NotifyAll(_, _)
\* The loop of lines 213-217 over the boxes at the positions `todo` of the
\* layout: notify_callbacks("Backend") of each, in sequence.
NotifyAll(boxes, todo) ==
    IF todo = <<>> THEN <<>>
    ELSE NotifyLog(boxes[Head(todo)], "Backend") \o NotifyAll(boxes, Tail(todo))

\* Page.recognize_ocr_boxes(box_index, convert_empty_textboxes); `whole` is
\* box_index is None. For the whole page boxes_to_recognize is the layout's
\* own list, so the final loop runs over the boxes the layout holds after
\* the conversions; for one box it is the list of that box.
recognize_ocr_boxes(pg, boxes, whole, box_index, convert_empty_textboxes, backend) ==
    IF pg.image_path = None THEN Done(TRUE, "", boxes, <<>>)
    ELSE IF ~whole /\ ~is_valid_box_index(boxes, box_index) THEN Done(TRUE, "", boxes, <<>>)
    ELSE IF ~pg.ocr_processor THEN Done(FALSE, "Exception", boxes, <<>>)
    ELSE IF backend.raises THEN Done(FALSE, "BackendError", boxes, <<>>)
    ELSE LET todo == IF whole THEN [k \in DOMAIN boxes |-> k] ELSE <<box_index + 1>>
             recognized ==
                 [k \in DOMAIN boxes |->
                    IF whole THEN [boxes[k] EXCEPT !.ocr_results = backend.results[k]]
                    ELSE IF k = box_index + 1
                         THEN [boxes[k] EXCEPT !.ocr_results = backend.results[1]]
                         ELSE boxes[k]]
             converted == IF convert_empty_textboxes /\ whole
                          THEN ConvertEmptyTextBoxes(recognized, 0)
                          ELSE recognized
         IN  Done(TRUE, "",
                  [k \in DOMAIN converted |->
                     IF (whole \/ k = box_index + 1) /\ IsTextBox(converted[k])
                     THEN [converted[k] EXCEPT !.user_text = <<>>]
                     ELSE converted[k]],
                  NotifyAll(converted, todo))

----------------------------------------------------------------------------
(* SpecRecognize: boxes added by the editor, edited, then recognized *)

\* The results the backend may give a box: none, a block without text, a
\* block with one paragraph.
ResultChoices == {NoResults, Block(<<>>), Block(<<1>>)}

RECURSIVE ResultLists(_)
\* The lists of n results
ResultLists(n) ==
    IF n = 0 THEN {<<>>}
    ELSE {Append(rs, r) : rs \in ResultLists(n - 1), r \in ResultChoices}

\* A page with an image, with or without a backend, and an empty layout
InitRecognize ==
    /\ ocr_boxes = <<>>
    /\ \E ocr_processor \in BOOLEAN : page = PageOf("data/1.jpeg", ocr_processor)
    /\ next_id = 1
    /\ last = NoCall
    /\ notified = <<>>
    /\ probe = NoProbe

\* PageEditorController.add_new_box: a text box or an image box, observed by
\* the editor
RecognizeAddBox ==
    /\ Len(ocr_boxes) < MaxRecognizeBoxes
    /\ \E type \in {"FLOWING_TEXT", "FLOWING_IMAGE"} :
          ocr_boxes' = add_ocr_box(ocr_boxes,
                           add_callback(FoundBox(FreshId(ocr_boxes, 1), type, 0, 1),
                                        on_ocr_box_updated))
    /\ last' = Call("add_new_box", 0, 0, "", "ok")
    /\ notified' = <<>>
    /\ probe' = NoProbe
    /\ UNCHANGED <<page, next_id>>

\* The operator edits the text of the first box, a TextBox: user_text
\* becomes non-empty
EditUserText ==
    /\ Len(ocr_boxes) > 0
    /\ IsTextBox(ocr_boxes[1])
    /\ ocr_boxes[1].user_text = <<>>
    /\ ocr_boxes' = [ocr_boxes EXCEPT ![1].user_text = <<"edit">>]
    /\ last' = Call("edit", 0, 0, "", "ok")
    /\ notified' = <<>>
    /\ probe' = NoProbe
    /\ UNCHANGED <<page, next_id>>

\* What the backend may do with n boxes: raise, or give each a result
RecognizeResults(n) ==
    {RecognizeResult(TRUE, <<>>)}
    \cup {RecognizeResult(FALSE, results) : results \in ResultLists(n)}

\* page.recognize_ocr_boxes(box_index, convert_empty_textboxes), for the
\* whole page (box_index None, held as 0) and for one box
RecognizeOcrBoxes ==
    /\ \E whole \in BOOLEAN, convert_empty_textboxes \in BOOLEAN :
       \E box_index \in IF whole THEN {0} ELSE (0 - 1)..(Len(ocr_boxes) - 1),
          backend \in RecognizeResults(IF whole THEN Len(ocr_boxes) ELSE 1) :
          LET r == recognize_ocr_boxes(page, ocr_boxes, whole, box_index,
                                       convert_empty_textboxes, backend)
          IN  /\ ocr_boxes' = r.boxes
              /\ notified' = r.log
              /\ last' = Call("recognize_ocr_boxes", box_index, 0,
                              BackendStatus(page, backend),
                              IF r.ok THEN "ok" ELSE r.err)
              /\ probe' = [fn |-> "recognize", whole |-> whole,
                           convert |-> convert_empty_textboxes]
    /\ UNCHANGED <<page, next_id>>

NextRecognize ==
    \/ RecognizeAddBox
    \/ EditUserText
    \/ RecognizeOcrBoxes

SpecRecognize == InitRecognize /\ [][NextRecognize]_vars

\* C14: after recognize_ocr_boxes over the whole page with
\* convert_empty_textboxes, the backend having returned, no box of the
\* layout is a TextBox without text: every box is of the variant it was,
\* or was a TextBox and is now, at the same index and with the same id and
\* order, an image box with no recognition result. With a box_index or
\* without convert_empty_textboxes no box changes its variant.
C14_EmptyTextBoxesBecomeImages ==
    [][(last'.op = "recognize_ocr_boxes" /\ last'.result = "ok")
       => /\ Len(ocr_boxes') = Len(ocr_boxes)
          /\ IF probe'.whole /\ probe'.convert /\ last'.t = "returned"
             THEN \A k \in DOMAIN ocr_boxes :
                     /\ IsTextBox(ocr_boxes'[k])
                           => /\ ocr_boxes'[k].ocr_results.kind = "block"
                              /\ ocr_boxes'[k].ocr_results.paragraphs # <<>>
                     /\ \/ ocr_boxes'[k].cls = ocr_boxes[k].cls
                        \/ /\ IsTextBox(ocr_boxes[k])
                           /\ ocr_boxes'[k].cls = "ImageBox"
                           /\ ocr_boxes'[k].type \in ImageTypes
                           /\ ocr_boxes'[k].id = ocr_boxes[k].id
                           /\ ocr_boxes'[k].order = ocr_boxes[k].order
                           /\ ocr_boxes'[k].ocr_results = NoResults
             ELSE \A k \in DOMAIN ocr_boxes : ocr_boxes'[k].cls = ocr_boxes[k].cls]_vars

\* The whole page was recognized: the first box, added as a text box
\* with an observer, is now an image box without results (and without
\* observer); the second is a TextBox with text.
C14_Witness ==
    /\ last.op = "recognize_ocr_boxes"
    /\ last.t = "returned"
    /\ probe.whole /\ probe.convert
    /\ Len(ocr_boxes) = 2
    /\ ocr_boxes[1].cls = "ImageBox" /\ ocr_boxes[1].callbacks = <<>>
    /\ ocr_boxes[1].ocr_results = NoResults
    /\ IsTextBox(ocr_boxes[2]) /\ ocr_boxes[2].ocr_results = Block(<<1>>)

\* C15: after recognize_ocr_boxes returns normally, the backend having been
\* called, each observer registered before the call on a processed box (the
\* indexed box, or every box of the page) has been invoked exactly once,
\* boxes converted to image boxes during the call included, and every
\* processed box that is a TextBox has empty user_text.
C15_ProcessedBoxesNotifyOnce ==
    [][(/\ last'.op = "recognize_ocr_boxes"
        /\ last'.result = "ok"
        /\ last'.t = "returned"
        /\ (probe'.whole \/ last'.i \in 0..(Len(ocr_boxes) - 1)))
       => \A k \in DOMAIN ocr_boxes :
             (probe'.whole \/ k = last'.i + 1)
             => /\ \A c \in Range(ocr_boxes[k].callbacks) :
                      Cardinality({j \in DOMAIN notified' :
                                      notified'[j] = <<ocr_boxes[k].id, c>>}) = 1
                /\ IsTextBox(ocr_boxes'[k]) => ocr_boxes'[k].user_text = <<>>]_vars

----------------------------------------------------------------------------
(* The variant table is total *)

\* C26: for every BoxType value, IGNORE included, convert_to(box_type)
\* succeeds and returns a box of one variant whose type is box_type.
C26_ConvertToTotal ==
    probe.fn = "convert_to" =>
        /\ probe.out.ok
        /\ probe.out.box.cls \in Variants
        /\ probe.out.box.type = probe.t

----------------------------------------------------------------------------
(* SpecLoad: from_dict and Page.from_dict applied to records with missing keys *)

\* A box record with the keys `missing` left out and the given type name;
\* the values of order, class, tag and confidence differ from the defaults.
LoadRecord(id, missing, type) ==
    [EmptyDict EXCEPT
        !.keys = BaseKeys \ missing,
        !.id = id,
        !.position = Position(1, 2, 3, 1),
        !.type = type,
        !.class = "c",
        !.tag = "t",
        !.confidence = 9,
        !.order = 3]

\* The type names of the records: known ones, and one BoxType does not have
LoadTypeNames == {"UNKNOWN", "FLOWING_TEXT", "FLOWING_IMAGE", "BOGUS"}

LoadRecords ==
    {LoadRecord(2, missing, type) :
        missing \in SUBSET {"id", "position", "type", "order", "class", "tag", "confidence"},
        type \in LoadTypeNames}

InitLoad ==
    /\ ocr_boxes = <<>>
    /\ page = Page0
    /\ next_id = 1
    /\ last = NoCall
    /\ notified = <<>>
    /\ \E data \in LoadRecords : probe = [fn |-> "input", data |-> data]

\* box = cls.from_dict(data)
ApplyFromDict ==
    /\ probe.fn = "input"
    /\ \E cls \in Variants :
          probe' = [fn |-> "from_dict", data |-> probe.data, cls |-> cls,
                    out |-> from_dict(cls, probe.data)]
    /\ UNCHANGED <<ocr_boxes, page, next_id, last, notified>>

\* page = Page.from_dict(data) for a page of two box records, a complete
\* one and then the record
ApplyPageFromDict ==
    /\ probe.fn = "input"
    /\ LET l == Page_from_dict(
                    [image_path |-> Page0.image_path, order |-> 0,
                     boxes |-> <<LoadRecord(1, {}, "FLOWING_TEXT"), probe.data>>,
                     region |-> Page0.region, header_y |-> 0, footer_y |-> 0])
       IN  /\ probe' = [fn |-> "page_from_dict", data |-> probe.data, ok |-> l.ok]
           /\ ocr_boxes' = l.boxes
           /\ page' = l.page
    /\ UNCHANGED <<next_id, last, notified>>

NextLoad ==
    \/ ApplyFromDict
    \/ ApplyPageFromDict

SpecLoad == InitLoad /\ [][NextLoad]_vars

\* The record lacks a required key or names no BoxType
Rejected(data) ==
    \/ ~({"id", "position", "type"} \subseteq data.keys)
    \/ data.type \notin BoxType

\* The box has class, tag and confidence of the record, or "", "" and 0
\* where the record has none
DefaultsApplied(b, data) ==
    /\ b.class_ = IF "class" \in data.keys THEN data.class ELSE ""
    /\ b.tag = IF "tag" \in data.keys THEN data.tag ELSE ""
    /\ b.confidence = IF "confidence" \in data.keys THEN data.confidence ELSE 0

\* C25 as stated: from_dict of every variant and Page.from_dict fail, and
\* produce no box, when the type names no BoxType or id, position or type
\* is missing; otherwise they succeed, and where order, class, tag or
\* confidence is absent the box has order 0, class "", tag "", confidence 0.
C25_LoadRejectsOrDefaults ==
    /\ probe.fn = "from_dict" =>
          IF Rejected(probe.data) THEN ~probe.out.ok
          ELSE /\ probe.out.ok
               /\ DefaultsApplied(probe.out.box, probe.data)
               /\ "order" \notin probe.data.keys => probe.out.box.order = 0
    /\ probe.fn = "page_from_dict" =>
          IF Rejected(probe.data) THEN ~probe.ok /\ Len(ocr_boxes) = 1
          ELSE /\ probe.ok
               /\ Len(ocr_boxes) = 2
               /\ DefaultsApplied(ocr_boxes[2], probe.data)
               /\ "order" \notin probe.data.keys => ocr_boxes[2].order = 0

\* C25, amended: as stated for from_dict of every variant; for
\* Page.from_dict the same, except that the loaded box's order is its
\* position in the list of records, whether the record has an order or not.
C25_LoadRejectsOrDefaultsByPosition ==
    /\ probe.fn = "from_dict" =>
          IF Rejected(probe.data) THEN ~probe.out.ok
          ELSE /\ probe.out.ok
               /\ DefaultsApplied(probe.out.box, probe.data)
               /\ probe.out.box.order = IF "order" \in probe.data.keys
                                        THEN probe.data.order ELSE 0
    /\ probe.fn = "page_from_dict" =>
          IF Rejected(probe.data) THEN ~probe.ok /\ Len(ocr_boxes) = 1
          ELSE /\ probe.ok
               /\ Len(ocr_boxes) = 2
               /\ DefaultsApplied(ocr_boxes[2], probe.data)
               /\ ocr_boxes[2].order = 1

\* A page was loaded whose second record has no order, class, tag or
\* confidence: the box has the defaults and the order of its position.
C25_Witness ==
    /\ probe.fn = "page_from_dict"
    /\ probe.data.keys = BaseKeys \ {"order", "class", "tag", "confidence"}
    /\ probe.ok
    /\ Len(ocr_boxes) = 2
    /\ ocr_boxes[2].order = 1
    /\ ocr_boxes[2].class_ = "" /\ ocr_boxes[2].tag = "" /\ ocr_boxes[2].confidence = 0

----------------------------------------------------------------------------
(* SpecIds: every orchestrator operation on one page, the backend's boxes *)
(* having fresh identities                                               *)

MaxIdBoxes == 2

\* The length up to which merged texts and merged results are followed
MaxIdText == 1

\* The lists the backend returns: none, one box, two boxes on the same
\* rectangle
IdsFound == {<<>>,
             <<FoundBox(0, "FLOWING_TEXT", 0, 1)>>,
             <<FoundBox(0, "FLOWING_TEXT", 0, 1), FoundBox(0, "FLOWING_IMAGE", 0, 1)>>}

\* page.analyze_page(settings, region, keep_existing_boxes) without filters
IdsAnalyzePage ==
    /\ \E keep_existing_boxes \in BOOLEAN, list \in IdsFound :
          LET found == WithFreshIds(list, ocr_boxes)
              r == analyze_page(page, ocr_boxes, SettingsOf(NoBoxTypes, 0, 0), TRUE,
                                keep_existing_boxes, FALSE, FALSE,
                                BackendResult(FALSE, found))
          IN  /\ Len(r.boxes) <= MaxIdBoxes
              /\ ocr_boxes' = r.boxes
              /\ last' = Call("analyze_page", 0, 0, "", "ok")
    /\ UNCHANGED <<page, next_id, notified, probe>>

\* page.analyze_ocr_box(index) and page.align_ocr_box(index), valid index
IdsRefine ==
    /\ \E index \in 0..(Len(ocr_boxes) - 1), list \in IdsFound, align \in BOOLEAN :
          LET found == WithFreshIds(list, ocr_boxes)
              r == IF align
                   THEN align_ocr_box(page, ocr_boxes, index, BackendResult(FALSE, found))
                   ELSE analyze_ocr_box(page, ocr_boxes, index, BackendResult(FALSE, found))
          IN  /\ Len(r.boxes) <= MaxIdBoxes
              /\ ocr_boxes' = r.boxes
              /\ last' = Call(IF align THEN "align_ocr_box" ELSE "analyze_ocr_box",
                              index, Len(list), "", "ok")
    /\ UNCHANGED <<page, next_id, notified, probe>>

\* page.recognize_ocr_boxes() over the whole page with a backend that finds
\* no text, so that every text box is replaced by its conversion
IdsRecognize ==
    /\ \E result \in {Block(<<>>)} :
       LET results == [k \in 1..Len(ocr_boxes) |-> result] IN
          /\ ocr_boxes' = recognize_ocr_boxes(page, ocr_boxes, TRUE, 0, TRUE,
                                              RecognizeResult(FALSE, results)).boxes
          /\ last' = Call("recognize_ocr_boxes", 0, 0, "", "ok")
    /\ UNCHANGED <<page, next_id, notified, probe>>

\* page.convert_ocr_box(index, box_type), valid index
IdsConvert ==
    /\ \E index \in 0..(Len(ocr_boxes) - 1), box_type \in {"FLOWING_TEXT", "FLOWING_IMAGE"} :
          /\ ocr_boxes' = convert_ocr_box(ocr_boxes, index, box_type)
          /\ last' = Call("convert", index, 0, "", "ok")
    /\ UNCHANGED <<page, next_id, notified, probe>>

\* page.merge_ocr_box_with_ocr_box(index1, index2), valid indices; the
\* rectangles are followed within the grid, the merged texts and results
\* up to MaxIdText
IdsMerge ==
    /\ \E index1 \in 0..(Len(ocr_boxes) - 1), index2 \in 0..(Len(ocr_boxes) - 1) :
          /\ ocr_boxes' = merge_ocr_box_with_ocr_box(ocr_boxes, index1, index2)
          /\ \A k \in DOMAIN ocr_boxes' :
                /\ InGrid(ocr_boxes'[k])
                /\ Len(ocr_boxes'[k].user_text) <= MaxIdText
                /\ Len(ocr_boxes'[k].ocr_results.paragraphs) <= MaxIdText
          /\ last' = Call("merge", index1, index2, "", "ok")
    /\ UNCHANGED <<page, next_id, notified, probe>>

NextIds ==
    \/ IdsAnalyzePage
    \/ IdsRefine
    \/ IdsRecognize
    \/ IdsConvert
    \/ IdsMerge

SpecIds == InitRecognize /\ [][NextIds]_vars

\* C27: with fresh identities from the backend, after every analyze_page
\* (keeping or replacing), analyze_ocr_box, align_ocr_box,
\* recognize_ocr_boxes, convert_ocr_box and merge the boxes of the layout
\* have pairwise distinct ids; and convert, align and a re-analysis with
\* one result leave the id at the index as it was, and a merge leaves the
\* id of the box merged into in the layout.
C27_IdsDistinctAndStable ==
    [][/\ Cardinality(Ids(ocr_boxes')) = Len(ocr_boxes')
       /\ (\/ last'.op = "convert"
           \/ last'.op = "align_ocr_box" /\ last'.j > 0
           \/ last'.op = "analyze_ocr_box" /\ last'.j = 1)
          => /\ Len(ocr_boxes') = Len(ocr_boxes)
             /\ ocr_boxes'[last'.i + 1].id = ocr_boxes[last'.i + 1].id
       /\ (last'.op = "merge" /\ last'.i # last'.j)
          => ocr_boxes[last'.i + 1].id \in Ids(ocr_boxes')]_vars

\* Two boxes with different ids, the second one just merged into, converted,
\* aligned or re-analyzed
C27_Witness ==
    /\ Len(ocr_boxes) = 2
    /\ ocr_boxes[1].id # ocr_boxes[2].id
    /\ last.op = "analyze_ocr_box" /\ last.i = 1 /\ last.j = 1

----------------------------------------------------------------------------
(* OCRResultWriter: the recognition result tree and the rich-text document *)

\* OCRResultSymbol: a single-character text and a confidence
Symbol(text, confidence) == [text |-> text, confidence |-> confidence]

\* OCRResultWord with one symbol per character, all of confidence
\* symbol_confidence
Word(text, confidence, symbol_confidence) ==
    [text |-> text, confidence |-> confidence,
     symbols |-> [k \in DOMAIN text |-> Symbol(text[k], symbol_confidence)]]

\* OCRResultWord without symbols
WordWithoutSymbols(text, confidence) ==
    [text |-> text, confidence |-> confidence, symbols |-> <<>>]

OCRResultLine(words) == [words |-> words]

OCRResultParagraph(lines) == [lines |-> lines]

OCRResultBlock(paragraphs) == [paragraphs |-> paragraphs]

\* QTextCharFormat(): no background
QTextCharFormat == [background |-> FALSE]

\* One character of a QTextDocument with its background (the confidence
\* highlight) and its foreground (the colour of a resolved hyphenation)
Unit(ch, format) == [ch |-> ch, background |-> format.background, foreground |-> "none"]

\* cursor.insertText(text, format) at the end of the document
insertText(document, text, format) ==
    document \o [k \in DOMAIN text |-> Unit(text[k], format)]

\* cursor.insertText(text): with the format of the character before the
\* cursor
insertTextAtCursor(document, text) ==
    insertText(document, text,
               IF document = <<>> THEN QTextCharFormat
               ELSE [background |-> document[Len(document)].background])

\* cursor.insertBlock(): a block boundary, a line break of the plain text
insertBlock(document) == Append(document, Unit("\n", QTextCharFormat))

\* The empty str
EmptyStr == [markup |-> FALSE, body |-> <<>>]

\* QTextDocument.toHtml(): the markup of the document, never the empty str
toHtml(document) == [markup |-> TRUE, body |-> document]

\* cursor.insertHtml(html) at the end of the document
insertHtml(document, html) == document \o html.body

\* QTextDocument.toPlainText()
toPlainText(document) == [k \in DOMAIN document |-> document[k].ch]

\* str.strip(): without leading and trailing white space
RECURSIVE strip(_)
strip(s) ==
    IF s = <<>> THEN s
    ELSE IF Head(s) \in {" ", "\n"} THEN strip(Tail(s))
    ELSE IF s[Len(s)] \in {" ", "\n"} THEN strip(SubSeq(s, 1, Len(s) - 1))
    ELSE s

\* BeautifulSoup(html, "html.parser").get_text().strip()
get_text_stripped(html) == strip([k \in DOMAIN html.body |-> html.body[k].ch])

\* str.isupper() of one character
isupper(ch) == ch \in {"A", "B"}

\* str.lower()
lower(s) == [k \in DOMAIN s |-> IF s[k] = "A" THEN "a" ELSE IF s[k] = "B" THEN "b" ELSE s[k]]

\* The result of _check_hyphenated_word: a bool, or the exception raised
Decision(ok, err, merge) == [ok |-> ok, err |-> err, merge |-> merge]

\* self.blacklist is None
NoBlacklist == [none |-> TRUE, words |-> {}]

\* self.blacklist holding the given words
Blacklist(words) == [none |-> FALSE, words |-> words]

\* OCRResultWriter._check_hyphenated_word: True for MERGE, False for
\* KEEP-SPLIT; second_part_stripped[0] raises IndexError for an empty str
_check_hyphenated_word(first_part, second_part, blacklist) ==
    LET second_part_stripped == get_text_stripped(second_part)
    IN  IF ~blacklist.none /\ lower(second_part_stripped) \in blacklist.words
        THEN Decision(TRUE, "", FALSE)
        ELSE IF second_part_stripped = <<>> THEN Decision(FALSE, "IndexError", FALSE)
        ELSE IF isupper(second_part_stripped[1]) THEN Decision(TRUE, "", FALSE)
        ELSE Decision(TRUE, "", TRUE)

\* OCRResultWriter._set_confidence_color_background
_set_confidence_color_background(format, element, confidence_color_threshold) ==
    IF element.confidence < confidence_color_threshold
    THEN [format EXCEPT !.background = TRUE]
    ELSE format

\* TextPart(part_type, text, word_first_part_with_hyphen, word_second_part)
TextPart(part_type, text, word_first_part_with_hyphen, word_second_part) ==
    [part_type |-> part_type, text |-> text,
     word_first_part_with_hyphen |-> word_first_part_with_hyphen,
     word_second_part |-> word_second_part]

\* OCRResultWriter.__init__ and the locals of _ocr_to_text_parts at its
\* start: an empty document, no parts, nothing buffered
Writer0 ==
    [document |-> <<>>, text_parts |-> <<>>, buffer_word |-> FALSE,
     word_first_part_with_hyphen |-> EmptyStr,
     word_first_part_hyphenized |-> EmptyStr,
     is_hyphenated_word |-> FALSE]

\* The confidence below which a unit is highlighted: the default of
\* application_settings "confidence_color_threshold"
confidence_color_threshold == 50

RECURSIVE WriteSymbols(_, _, _, _, _)
\* The loop of _write_word_symbols over symbols[0..i-1]: each symbol is
\* inserted with a copy of the word's format, highlighted if its own
\* confidence is low; for a hyphenated word the document is remembered
\* before a "-" symbol and, once, after the last symbol.
WriteSymbols(wr, symbols, i, word_format, is_hyphenated_word) ==
    IF i = 0 THEN wr
    ELSE LET p == WriteSymbols(wr, symbols, i - 1, word_format, is_hyphenated_word)
             symbol_format == _set_confidence_color_background(
                                  word_format, symbols[i], confidence_color_threshold)
             document == insertText(p.document, <<symbols[i].text>>, symbol_format)
         IN  [p EXCEPT
                !.document = document,
                !.word_first_part_with_hyphen =
                    IF is_hyphenated_word /\ i < Len(symbols) /\ symbols[i + 1].text = "-"
                    THEN toHtml(document) ELSE @,
                !.word_first_part_hyphenized =
                    IF is_hyphenated_word /\ i = Len(symbols) /\ @ = EmptyStr
                    THEN toHtml(document) ELSE @]

\* OCRResultWriter._write_word_symbols: after the symbols of a hyphenated
\* word, either the buffered record is closed (a HYPHENATED_WORD part of the
\* two remembered documents and the current one) or buffering starts and
\* the document is reset.
_write_word_symbols(wr, symbols, word_format, is_hyphenated_word) ==
    LET p == WriteSymbols(wr, symbols, Len(symbols), word_format, is_hyphenated_word)
    IN  IF ~is_hyphenated_word THEN p
        ELSE IF p.buffer_word
        THEN [p EXCEPT
                !.text_parts = Append(@, TextPart("HYPHENATED_WORD",
                                                  p.word_first_part_with_hyphen,
                                                  p.word_first_part_hyphenized,
                                                  toHtml(p.document))),
                !.document = <<>>,
                !.word_first_part_with_hyphen = EmptyStr,
                !.word_first_part_hyphenized = EmptyStr,
                !.buffer_word = FALSE]
        ELSE [p EXCEPT !.buffer_word = TRUE, !.document = <<>>]

\* The body of the loop over the words of a line (lines 170-205) for
\* word w of line l, both counted from 1
WriteWord(wr, paragraph, l, w) ==
    LET line == paragraph.lines[l]
        word == line.words[w]
    IN  IF Len(word.symbols) = 0
        THEN [wr EXCEPT !.document = insertText(@, word.text, QTextCharFormat)]
        ELSE LET hyphen == /\ w = Len(line.words)
                           /\ l < Len(paragraph.lines)
                           /\ word.symbols[Len(word.symbols)].text = "-"
                 stored == IF hyphen
                           THEN [wr EXCEPT
                                   !.text_parts = Append(@, TextPart("TEXT", toHtml(wr.document),
                                                                     EmptyStr, EmptyStr)),
                                   !.document = <<>>,
                                   !.is_hyphenated_word = TRUE]
                           ELSE wr
                 word_format == _set_confidence_color_background(
                                    QTextCharFormat, word, confidence_color_threshold)
                 written == _write_word_symbols(stored, word.symbols, word_format,
                                                stored.is_hyphenated_word)
             IN  [written EXCEPT
                    !.is_hyphenated_word = IF w = 1 /\ ~written.buffer_word THEN FALSE ELSE @,
                    !.document = IF word # line.words[Len(line.words)]
                                 THEN insertText(@, <<" ">>, QTextCharFormat) ELSE @]

RECURSIVE WriteWords(_, _, _, _)
\* for w, word in enumerate(line.words), the first w words
WriteWords(wr, paragraph, l, w) ==
    IF w = 0 THEN wr
    ELSE WriteWord(WriteWords(wr, paragraph, l, w - 1), paragraph, l, w)

\* The body of the loop over the lines of a paragraph (lines 168-207)
WriteLine(wr, paragraph, l) ==
    LET p == WriteWords(wr, paragraph, l, Len(paragraph.lines[l].words))
    IN  IF paragraph.lines[l] # paragraph.lines[Len(paragraph.lines)] /\ ~p.is_hyphenated_word
        THEN [p EXCEPT !.document = insertText(@, <<" ">>, QTextCharFormat)]
        ELSE p

RECURSIVE WriteLines(_, _, _)
WriteLines(wr, paragraph, l) ==
    IF l = 0 THEN wr
    ELSE WriteLine(WriteLines(wr, paragraph, l - 1), paragraph, l)

RECURSIVE WriteParagraphs(_, _, _)
\* for paragraph in block.paragraphs, the first k paragraphs
WriteParagraphs(wr, block, k) ==
    IF k = 0 THEN wr
    ELSE LET p == WriteParagraphs(wr, block, k - 1)
         IN  WriteLines(IF k > 1 THEN [p EXCEPT !.document = insertBlock(@)] ELSE p,
                        block.paragraphs[k], Len(block.paragraphs[k].lines))

RECURSIVE WriteBlocks(_, _, _)
\* for block in ocr_result_blocks, the first k blocks
WriteBlocks(wr, ocr_result_blocks, k) ==
    IF k = 0 THEN wr
    ELSE LET p == WriteBlocks(wr, ocr_result_blocks, k - 1)
             q == WriteParagraphs(
                      [p EXCEPT !.document = IF k > 1 THEN insertBlock(@) ELSE @,
                                !.is_hyphenated_word = FALSE],
                      ocr_result_blocks[k], Len(ocr_result_blocks[k].paragraphs))
         IN  IF ocr_result_blocks[k] # ocr_result_blocks[Len(ocr_result_blocks)]
             THEN [q EXCEPT !.document = insertText(@, <<"\n">>, QTextCharFormat)]
             ELSE q

\* OCRResultWriter._ocr_to_text_parts on a writer in the state wr: the
\* traversal, then the rest of the document as the last TEXT part
_ocr_to_text_parts(wr, ocr_result_blocks) ==
    LET p == WriteBlocks([wr EXCEPT !.document = <<>>, !.text_parts = <<>>,
                                    !.is_hyphenated_word = FALSE],
                         ocr_result_blocks, Len(ocr_result_blocks))
    IN  [p EXCEPT !.text_parts = Append(@, TextPart("TEXT", toHtml(p.document),
                                                    EmptyStr, EmptyStr)),
                  !.document = <<>>]

\* cursor.mergeCharFormat over the units from start_position on
Coloured(units, colour) == [k \in DOMAIN units |-> [units[k] EXCEPT !.foreground = colour]]

RECURSIVE MergeParts(_, _, _)
\* The loop of _text_parts_to_qdocument over the first k parts: the document
\* so far, or the exception of _check_hyphenated_word
MergeParts(text_parts, k, blacklist) ==
    IF k = 0 THEN [ok |-> TRUE, err |-> "", document |-> <<>>]
    ELSE LET p == MergeParts(text_parts, k - 1, blacklist)
             text_part == text_parts[k]
             check == _check_hyphenated_word(text_part.word_first_part_with_hyphen,
                                             text_part.word_second_part, blacklist)
         IN  IF ~p.ok THEN p
             ELSE IF text_part.part_type = "TEXT"
             THEN [p EXCEPT !.document = insertHtml(@, text_part.text)]
             ELSE IF ~check.ok THEN [p EXCEPT !.ok = FALSE, !.err = check.err]
             ELSE IF check.merge
             THEN [p EXCEPT !.document =
                      @ \o Coloured(insertHtml(insertHtml(<<>>, text_part.text),
                                               text_part.word_second_part), "merged")]
             ELSE [p EXCEPT !.document =
                      @ \o Coloured(insertHtml(insertTextAtCursor(insertHtml(<<>>,
                                        text_part.word_first_part_with_hyphen), <<" ">>),
                                        text_part.word_second_part), "split")]

\* OCRResultWriter._text_parts_to_qdocument
_text_parts_to_qdocument(text_parts, blacklist) ==
    MergeParts(text_parts, Len(text_parts), blacklist)

----------------------------------------------------------------------------
(* SpecCheck: _check_hyphenated_word on fragments of up to MaxFragment *)
(* characters                                                          *)

MaxFragment == 2

\* The str values of up to n characters over "b", "B" and the space
Texts(n) == UNION {[1..k -> {"b", "B", " "}] : k \in 0..n}

\* The markup of a plain text
Fragment(text) == toHtml(insertText(<<>>, text, QTextCharFormat))

\* Two fragments and a writer's reject list
InitCheck ==
    /\ ocr_boxes = <<>>
    /\ page = Page0
    /\ next_id = 1
    /\ last = NoCall
    /\ notified = <<>>
    /\ \E first \in Texts(MaxFragment), second \in Texts(MaxFragment),
          blacklist \in {NoBlacklist, Blacklist({}), Blacklist({<<"b">>})} :
          probe = [fn |-> "fragments", first_part |-> Fragment(first),
                   second_part |-> Fragment(second), blacklist |-> blacklist]

\* writer._check_hyphenated_word(first_part, second_part)
CheckHyphenatedWord ==
    /\ probe.fn = "fragments"
    /\ probe' = [fn |-> "_check_hyphenated_word", first_part |-> probe.first_part,
                 second_part |-> probe.second_part, blacklist |-> probe.blacklist,
                 out |-> _check_hyphenated_word(probe.first_part, probe.second_part,
                                                probe.blacklist)]
    /\ UNCHANGED <<ocr_boxes, page, next_id, last, notified>>

NextCheck == CheckHyphenatedWord

SpecCheck == InitCheck /\ [][NextCheck]_vars

\* The decision the second fragment's plain text asks for
KeepSplit(plain, blacklist) ==
    \/ plain # <<>> /\ isupper(plain[1])
    \/ ~blacklist.none /\ lower(plain) \in blacklist.words

\* C21: for every first fragment, second fragment and reject list,
\* _check_hyphenated_word returns a decision (it does not raise), the empty
\* second fragment included, and the decision is KEEP-SPLIT exactly when
\* the second fragment's plain text starts with an upper-case letter or
\* its lower-cased plain text is in the reject list.
C21_DecisionTotal ==
    probe.fn = "_check_hyphenated_word"
        => /\ probe.out.ok
           /\ probe.out.merge = ~KeepSplit(get_text_stripped(probe.second_part),
                                           probe.blacklist)

----------------------------------------------------------------------------
(* SpecWriter: to_qdocument on the result trees of up to MaxWriterWords *)
(* words                                                                *)

MaxWriterWords == 3

\* The words of the trees: "a-", "b", "B", "b-" with symbols, "b" without,
\* all of high confidence, and "b" with a low or a borderline confidence of
\* the word or of its symbol
WriterWords ==
    {Word(<<"a", "-">>, 90, 90), Word(<<"b">>, 90, 90), Word(<<"B">>, 90, 90),
     Word(<<"b", "-">>, 90, 90), WordWithoutSymbols(<<"b">>, 90),
     Word(<<"b">>, 40, 90), Word(<<"b">>, 90, 40), Word(<<"b">>, 50, 50),
     WordWithoutSymbols(<<"b">>, 40)}

\* What separates two consecutive words: 0 a word boundary, 1 a line
\* boundary, 2 a paragraph boundary, 3 a block boundary
Boundaries == 0..3

RECURSIVE Runs(_, _, _, _)
\* The runs <<first, last>> of the words lo..hi between the boundaries of
\* at least the given level
Runs(seps, lo, hi, level) ==
    LET cuts == {k \in lo..(hi - 1) : seps[k] >= level}
    IN  IF cuts = {} THEN <<<<lo, hi>>>>
        ELSE LET c == CHOOSE k \in cuts : \A m \in cuts : k <= m
             IN  <<<<lo, c>>>> \o Runs(seps, c + 1, hi, level)

\* The tree of the words with the boundaries seps between them
ParagraphOf(words, seps, run) ==
    LET lines == Runs(seps, run[1], run[2], 1)
    IN  OCRResultParagraph([i \in DOMAIN lines |->
            OCRResultLine(SubSeq(words, lines[i][1], lines[i][2]))])

BlockOf(words, seps, run) ==
    LET paragraphs == Runs(seps, run[1], run[2], 2)
    IN  OCRResultBlock([i \in DOMAIN paragraphs |-> ParagraphOf(words, seps, paragraphs[i])])

BlocksOf(words, seps) ==
    LET blocks == Runs(seps, 1, Len(words), 3)
    IN  [i \in DOMAIN blocks |-> BlockOf(words, seps, blocks[i])]

\* A writer as constructed, and a list of blocks to write
InitWriter ==
    /\ ocr_boxes = <<>>
    /\ page = Page0
    /\ next_id = 1
    /\ last = NoCall
    /\ notified = <<>>
    /\ \E n \in 1..MaxWriterWords :
       \E words \in [1..n -> WriterWords], seps \in [1..(n - 1) -> Boundaries] :
          probe = [fn |-> "blocks", words |-> words, seps |-> seps]

\* OCRResultWriter.to_qdocument(ocr_result_blocks)
ToQDocument ==
    /\ probe.fn = "blocks"
    /\ LET wr == _ocr_to_text_parts(Writer0, BlocksOf(probe.words, probe.seps))
           out == _text_parts_to_qdocument(wr.text_parts, NoBlacklist)
       IN  probe' = [fn |-> "to_qdocument", words |-> probe.words, seps |-> probe.seps,
                     text_parts |-> wr.text_parts,
                     buffer_word |-> wr.buffer_word,
                     word_first_part_with_hyphen |-> wr.word_first_part_with_hyphen,
                     word_first_part_hyphenized |-> wr.word_first_part_hyphenized,
                     ok |-> out.ok, document |-> out.document]
    /\ UNCHANGED <<ocr_boxes, page, next_id, last, notified>>

NextWriter == ToQDocument

SpecWriter == InitWriter /\ [][NextWriter]_vars

\* len(word.symbols) > 0
HasSymbols(word) == Len(word.symbols) > 0

\* The texts of the symbols of a word, in order
SymbolTexts(word) == [k \in DOMAIN word.symbols |-> word.symbols[k].text]

\* The line of word k ends with word k, a later line of the same paragraph
\* follows, and the last symbol of word k is "-"
HyphenationPoint(words, seps, k) ==
    /\ k < Len(words)
    /\ seps[k] = 1
    /\ HasSymbols(words[k])
    /\ words[k].symbols[Len(words[k].symbols)].text = "-"

\* The parts of the given type, in order
PartsOfType(text_parts, part_type) ==
    SelectSeq(text_parts, LAMBDA part : part.part_type = part_type)

\* C22: for a paragraph of two one-word lines, the first word ending in a
\* "-" symbol and the second word having symbols, to_qdocument succeeds
\* with exactly one HYPHENATED_WORD part, which holds (a) the first word
\* with its hyphen, (b) the first word without it and (c) the second word;
\* the document reads (b)(c) on MERGE and (a), a space, (c) on KEEP-SPLIT.
\* This holds for all words, those with further "-" symbols included.
C22_HyphenatedWordRecord ==
    (/\ probe.fn = "to_qdocument"
     /\ Len(probe.words) = 2
     /\ HyphenationPoint(probe.words, probe.seps, 1)
     /\ HasSymbols(probe.words[2]))
        => LET a == SymbolTexts(probe.words[1])
               b == SubSeq(a, 1, Len(a) - 1)
               c == SymbolTexts(probe.words[2])
               records == PartsOfType(probe.text_parts, "HYPHENATED_WORD")
           IN  /\ probe.ok
               /\ Len(records) = 1
               /\ toPlainText(records[1].word_first_part_with_hyphen.body) = a
               /\ toPlainText(records[1].text.body) = b
               /\ toPlainText(records[1].word_second_part.body) = c
               /\ toPlainText(probe.document) =
                      IF KeepSplit(c, NoBlacklist) THEN a \o <<" ">> \o c ELSE b \o c

\* The text a word contributes: its symbols' texts, or word.text for a
\* word without symbols
WordText(word) == IF HasSymbols(word) THEN SymbolTexts(word) ELSE word.text

RECURSIVE SpacedText(_, _)
\* The words 1..k of one paragraph, a single space between two consecutive
\* words
SpacedText(words, k) ==
    IF k = 0 THEN <<>>
    ELSE IF k = 1 THEN WordText(words[1])
    ELSE SpacedText(words, k - 1) \o <<" ">> \o WordText(words[k])

\* The words are one paragraph without a hyphenation point
PlainParagraph(words, seps) ==
    /\ \A k \in DOMAIN seps : seps[k] \in {0, 1}
    /\ \A k \in DOMAIN words : ~HyphenationPoint(words, seps, k)

\* C23: for a paragraph without hyphenation points the text of the
\* document is the words in order with exactly one space between two
\* consecutive words of a line and between the last word of a line and the
\* first word of the next, and none at the end; repeated identical words
\* and lines and words without symbols included.
C23_SingleSpaces ==
    (/\ probe.fn = "to_qdocument"
     /\ PlainParagraph(probe.words, probe.seps))
        => /\ probe.ok
           /\ toPlainText(probe.document) = SpacedText(probe.words, Len(probe.words))

\* The confidence of the unit at position k of a word's text: the symbol's,
\* or the word's for a word without symbols
UnitConfidence(word, k) ==
    IF HasSymbols(word) THEN word.symbols[k].confidence ELSE word.confidence

\* C24: in the document of a single word every unit (each symbol, or each
\* character of a word written by the fallback for words without symbols)
\* has the confidence background exactly when its confidence is strictly
\* below the threshold.
C24_HighlightIffBelowThreshold ==
    (/\ probe.fn = "to_qdocument"
     /\ Len(probe.words) = 1)
        => /\ probe.ok
           /\ Len(probe.document) = Len(WordText(probe.words[1]))
           /\ \A k \in DOMAIN probe.document :
                 probe.document[k].background
                     = (UnitConfidence(probe.words[1], k) < confidence_color_threshold)

RECURSIVE Without(_, _)
\* The text without the characters of the set
Without(text, chars) ==
    IF text = <<>> THEN <<>>
    ELSE IF Head(text) \in chars THEN Without(Tail(text), chars)
    ELSE <<Head(text)>> \o Without(Tail(text), chars)

RECURSIVE InputText(_, _)
\* The texts of the words 1..k in reading order
InputText(words, k) ==
    IF k = 0 THEN <<>> ELSE InputText(words, k - 1) \o WordText(words[k])

\* C28: to_qdocument succeeds and the text of its document, without
\* spaces, block separators and hyphens, is the input's symbol texts (word
\* texts for words without symbols) in reading order without hyphens:
\* nothing but separators and hyphens is lost, added or reordered.
C28_NothingLost ==
    probe.fn = "to_qdocument"
        => /\ probe.ok
           /\ Without(toPlainText(probe.document), {" ", "\n", "-"})
                  = Without(InputText(probe.words, Len(probe.words)), {"-"})

\* The number of hyphenation points of the input
HyphenationPoints(words, seps) ==
    Cardinality({k \in DOMAIN words : HyphenationPoint(words, seps, k)})

\* C29: when _ocr_to_text_parts has returned, buffer_word is False and the
\* two remembered first fragments are "", there are as many HYPHENATED_WORD
\* parts as the input has hyphenation points, every HYPHENATED_WORD part
\* comes right after a TEXT part, and the last part is a TEXT part.
C29_BufferingCloses ==
    probe.fn = "to_qdocument"
        => /\ ~probe.buffer_word
           /\ probe.word_first_part_with_hyphen = EmptyStr
           /\ probe.word_first_part_hyphenized = EmptyStr
           /\ Len(PartsOfType(probe.text_parts, "HYPHENATED_WORD"))
                  = HyphenationPoints(probe.words, probe.seps)
           /\ \A k \in DOMAIN probe.text_parts :
                 probe.text_parts[k].part_type = "HYPHENATED_WORD"
                     => k > 1 /\ probe.text_parts[k - 1].part_type = "TEXT"
           /\ probe.text_parts[Len(probe.text_parts)].part_type = "TEXT"

----------------------------------------------------------------------------
(* OCREditorNavigation: the position of the OCR editor among the text *)
(* boxes of all pages                                                  *)

MaxNavPages == 3
MaxNavBoxes == 2

\* An entry (box, page_index, box_index) of all_text_boxes
Entry(page_index, box_index) == [page_index |-> page_index, box_index |-> box_index]

RECURSIVE PageEntries(_, _, _)
\* The entries of the TextBoxes among the first k boxes of page i
PageEntries(pages, i, k) ==
    IF k = 0 THEN <<>>
    ELSE PageEntries(pages, i, k - 1)
             \o (IF pages[i + 1][k] = "TextBox" THEN <<Entry(i, k - 1)>> ELSE <<>>)

RECURSIVE AllTextBoxes(_, _)
\* OCREditorNavigation.__init__: all_text_boxes over the first k pages
AllTextBoxes(pages, k) ==
    IF k = 0 THEN <<>>
    ELSE AllTextBoxes(pages, k - 1) \o PageEntries(pages, k - 1, Len(pages[k]))

\* The navigation state: the three indices, and whether a call raised
Nav(page_index, box_index, absolute_box_index) ==
    [current_page_index |-> page_index, current_box_index |-> box_index,
     current_absolute_box_index |-> absolute_box_index, err |-> ""]

\* all_text_boxes[i] of Python: the entry, for i in -n..n-1
ListIndexable(all, i) == i >= 0 - Len(all) /\ i <= Len(all) - 1

ListAt(all, i) == IF i >= 0 THEN all[i + 1] ELSE all[Len(all) + i + 1]

\* find_next_box: moves to the first entry at or after the current
\* absolute index; `found` is whether a box was returned
find_next_box(all, nav) ==
    LET hits == {i \in 0..(Len(all) - 1) : i >= nav.current_absolute_box_index}
        i == CHOOSE h \in hits : \A m \in hits : h <= m
    IN  IF hits = {} THEN [found |-> FALSE, nav |-> nav]
        ELSE [found |-> TRUE, nav |-> Nav(all[i + 1].page_index, all[i + 1].box_index, i)]

\* find_previous_box: moves to the last entry at or before the current
\* absolute index
find_previous_box(all, nav) ==
    LET hits == {i \in 0..(Len(all) - 1) : i <= nav.current_absolute_box_index}
        i == CHOOSE h \in hits : \A m \in hits : h >= m
    IN  IF hits = {} THEN [found |-> FALSE, nav |-> nav]
        ELSE [found |-> TRUE, nav |-> Nav(all[i + 1].page_index, all[i + 1].box_index, i)]

\* OCREditorNavigation.next_box
next_box(all, nav) ==
    LET moved == [nav EXCEPT !.current_absolute_box_index = @ + 1]
        r == find_next_box(all, moved)
    IN  IF r.found THEN r.nav
        ELSE [moved EXCEPT !.current_absolute_box_index = Len(all) - 1]

\* OCREditorNavigation.previous_box
previous_box(all, nav) ==
    LET moved == [nav EXCEPT !.current_absolute_box_index = @ - 1]
        r == find_previous_box(all, moved)
    IN  IF r.found THEN r.nav
        ELSE [moved EXCEPT !.current_absolute_box_index = 0]

RECURSIVE SkipForward(_, _)
\* The while loop of next_page: past the entries of the current page
SkipForward(all, nav) ==
    IF nav.current_absolute_box_index >= Len(all) THEN nav
    ELSE IF ~ListIndexable(all, nav.current_absolute_box_index)
    THEN [nav EXCEPT !.err = "IndexError"]
    ELSE IF nav.current_page_index = ListAt(all, nav.current_absolute_box_index).page_index
    THEN SkipForward(all, [nav EXCEPT !.current_absolute_box_index = @ + 1])
    ELSE nav

RECURSIVE SkipBackward(_, _)
\* The while loop of previous_page: before the entries of the current page
SkipBackward(all, nav) ==
    IF nav.current_absolute_box_index < 0 THEN nav
    ELSE IF ~ListIndexable(all, nav.current_absolute_box_index)
    THEN [nav EXCEPT !.err = "IndexError"]
    ELSE IF nav.current_page_index = ListAt(all, nav.current_absolute_box_index).page_index
    THEN SkipBackward(all, [nav EXCEPT !.current_absolute_box_index = @ - 1])
    ELSE nav

RECURSIVE SkipToFirst(_, _)
\* The while loop of move_to_first_page_block
SkipToFirst(all, nav) ==
    IF nav.current_absolute_box_index <= 0 THEN nav
    ELSE IF ~ListIndexable(all, nav.current_absolute_box_index - 1)
    THEN [nav EXCEPT !.err = "IndexError"]
    ELSE IF ListAt(all, nav.current_absolute_box_index - 1).page_index = nav.current_page_index
    THEN SkipToFirst(all, [nav EXCEPT !.current_absolute_box_index = @ - 1])
    ELSE nav

\* OCREditorNavigation.move_to_first_page_block
move_to_first_page_block(all, nav) ==
    LET first == SkipToFirst(all, nav)
    IN  IF first.err # "" THEN first ELSE find_next_box(all, first).nav

\* OCREditorNavigation.next_page: the absolute index after the loop is
\* compared with the page index the call started from
next_page(all, nav) ==
    LET original_page_index == nav.current_page_index
        moved == SkipForward(all, nav)
        r == find_next_box(all, moved)
    IN  IF moved.err # "" THEN moved
        ELSE IF moved.current_absolute_box_index = original_page_index THEN moved
        ELSE IF r.found THEN r.nav
        ELSE [moved EXCEPT !.current_absolute_box_index = Len(all) - 1]

\* OCREditorNavigation.previous_page
previous_page(all, nav) ==
    LET original_page_index == nav.current_page_index
        moved == SkipBackward(all, nav)
        r == find_previous_box(all, moved)
    IN  IF moved.err # "" THEN moved
        ELSE IF moved.current_absolute_box_index = original_page_index THEN moved
        ELSE move_to_first_page_block(all,
                 IF r.found THEN r.nav
                 ELSE [moved EXCEPT !.current_absolute_box_index = 0])

----------------------------------------------------------------------------
(* SpecNav: the editor opened on up to MaxNavPages pages of up to      *)
(* MaxNavBoxes boxes, then any sequence of the four navigation calls   *)

\* The boxes of a page: text boxes and image boxes
NavPage == UNION {[1..k -> {"TextBox", "ImageBox"}] : k \in 0..MaxNavBoxes}

\* OCREditorDialog.__init__ without start_box_id: the navigation is
\* constructed and find_next_box is called once
InitNav ==
    /\ ocr_boxes = <<>>
    /\ page = Page0
    /\ next_id = 1
    /\ last = NoCall
    /\ notified = <<>>
    /\ \E n \in 1..MaxNavPages : \E pages \in [1..n -> NavPage] :
          LET all == AllTextBoxes(pages, n)
          IN  /\ all # <<>>
              /\ probe = [fn |-> "navigation", all_text_boxes |-> all,
                          nav |-> find_next_box(all, Nav(0 - 1, 0 - 1, 0 - 1)).nav]

\* A navigation call on a dialog none of whose calls has raised
NavStep(nav) ==
    /\ probe.fn = "navigation"
    /\ probe.nav.err = ""
    /\ probe' = [probe EXCEPT !.nav = nav]
    /\ UNCHANGED <<ocr_boxes, page, next_id, last, notified>>

NavNextBox == NavStep(next_box(probe.all_text_boxes, probe.nav))

NavPreviousBox == NavStep(previous_box(probe.all_text_boxes, probe.nav))

NavNextPage == NavStep(next_page(probe.all_text_boxes, probe.nav))

NavPreviousPage == NavStep(previous_page(probe.all_text_boxes, probe.nav))

NextNav ==
    \/ NavNextBox
    \/ NavPreviousBox
    \/ NavNextPage
    \/ NavPreviousPage

SpecNav == InitNav /\ [][NextNav]_vars

\* C30: after the initial find_next_box and any sequence of next_box,
\* previous_box, next_page and previous_page, no call has indexed
\* all_text_boxes out of range, current_absolute_box_index is within
\* 0..len(all_text_boxes)-1, and current_page_index and current_box_index
\* are those of the entry at current_absolute_box_index.
C30_NavigationConsistent ==
    probe.fn = "navigation"
        => /\ probe.nav.err = ""
           /\ probe.nav.current_absolute_box_index \in 0..(Len(probe.all_text_boxes) - 1)
           /\ probe.nav.current_page_index
                  = probe.all_text_boxes[probe.nav.current_absolute_box_index + 1].page_index
           /\ probe.nav.current_box_index
                  = probe.all_text_boxes[probe.nav.current_absolute_box_index + 1].box_index

====
